---- MODULE Spec2Model ----
(***************************************************************************)
(* State-measurement engine (pennylane/devices/qubit/measure.py) and the   *)
(* Pauli conversion engine (pennylane/pauli/conversion.py).                *)
(*                                                                         *)
(* Complex numbers are pairs <<re, im>> of integers.  A state tensor of    *)
(* rank k is a record [shape, data]: shape is the tuple (2,)*k and data    *)
(* maps every index tuple (one bit per axis) to its amplitude.  Amplitudes  *)
(* are stored times a common positive factor, so that they are integers:   *)
(* the Hadamard gate is stored times sqrt(2), and a quantity that is       *)
(* quadratic in the amplitudes is compared with the squared norm.          *)
(***************************************************************************)
EXTENDS Integers, Sequences, FiniteSets, TLC

\* ------------------------------------------------------------------ bounds
MaxWires == 1       \* largest rank of a simulated state tensor
MaxGates == 2       \* longest diagonalizing-gate sequence of an observable
MaxTerms == 2       \* most terms of a Hamiltonian observable
MaxSide == 3        \* most rows and most columns of a matrix given to pauli_decompose
MaxOperands == 2    \* most operands of a composite operator, most terms of a Hamiltonian operand
MaxCalls == 2       \* most calls of pauli_sentence on one operator
MaxBlocks == 2      \* most drive terms and other parametrized terms of a Hamiltonian that is reordered
MaxSites == 2       \* most wires and most connections given to transmon_interaction

\* ------------------------------------------------------- complex arithmetic
CZero == <<0, 0>>
COne == <<1, 0>>
CI == <<0, 1>>
CAdd(a, b) == <<a[1] + b[1], a[2] + b[2]>>
CSub(a, b) == <<a[1] - b[1], a[2] - b[2]>>
CNeg(a) == <<0 - a[1], 0 - a[2]>>
CMul(a, b) == <<a[1] * b[1] - a[2] * b[2], a[1] * b[2] + a[2] * b[1]>>
CConj(a) == <<a[1], 0 - a[2]>>
CReal(a) == a[1]

RECURSIVE Pow2(_)
Pow2(n) == IF n <= 0 THEN 1 ELSE 2 * Pow2(n - 1)

\* sum and product of the first n entries of a sequence of complex numbers
RECURSIVE CSumTo(_, _)
CSumTo(s, n) == IF n = 0 THEN CZero ELSE CAdd(CSumTo(s, n - 1), s[n])

RECURSIVE CProdTo(_, _)
CProdTo(s, n) == IF n = 0 THEN COne ELSE CMul(CProdTo(s, n - 1), s[n])

SeqUpTo(S, n) == UNION {[1..m -> S] : m \in 0..n}

\* the elements of a finite set in some order
RECURSIVE SetToSeq(_)
SetToSeq(S) ==
    IF S = {} THEN <<>>
    ELSE LET x == CHOOSE y \in S : TRUE IN <<x>> \o SetToSeq(S \ {x})

\* ------------------------------------------------------------ state tensors
BitTuples(k) == [1..k -> {0, 1}]
\* the index tuple of flat position r (0-based) in row-major order
IndexBits(r, k) == [a \in 1..k |-> (r \div Pow2(k - a)) % 2]

\* the states handed to measure: a computational basis state (amplitude 1 or i)
\* or a superposition of all basis states with amplitudes 1 or i
BasisData(k) == {[b \in BitTuples(k) |-> IF b = e THEN a ELSE CZero] :
                   e \in BitTuples(k), a \in {COne, CI}}
Tensors(k) == [shape : {[a \in 1..k |-> 2]},
               data : BasisData(k) \cup [BitTuples(k) -> {COne, CI}]]

\* len(state.shape)
Rank(t) == Len(t.shape)
\* math.flatten(state) / math.toarray(state).flatten(): a new vector, row-major
Flatten(t) == [i \in 1..Pow2(Rank(t)) |-> t.data[IndexBits(i - 1, Rank(t))]]
\* Wires(range(n)) / list(range(n))
WireRange(n) == [i \in 1..n |-> i - 1]

\* --------------------------------------------- operators acting on a state
GateNames == {"PauliX", "S"}
Gates(k) == [name : GateNames, wire : 0..(k - 1)]

FlipBit(b, a) == [b EXCEPT ![a] = 1 - b[a]]

\* apply_operation(op, state): returns a new tensor, the argument is not written
apply_operation(op, t) ==
    LET a == op.wire + 1
        new == [b \in DOMAIN t.data |->
                  CASE op.name = "PauliX" -> t.data[FlipBit(b, a)]
                    [] op.name = "S" -> IF b[a] = 1 THEN CMul(CI, t.data[b]) ELSE t.data[b]
                    [] op.name = "PauliZ" -> IF b[a] = 1 THEN CNeg(t.data[b]) ELSE t.data[b]
                    [] op.name = "Hadamard" ->
                         IF b[a] = 0 THEN CAdd(t.data[b], t.data[FlipBit(b, a)])
                         ELSE CSub(t.data[FlipBit(b, a)], t.data[b])]
    IN [shape |-> t.shape, data |-> new]

\* ------------------------------------------------------------- observables
Letters == {"I", "X", "Y", "Z"}

\* entry (a, b) of a single-qubit Pauli matrix
PauliEntry(l, a, b) ==
    CASE l = "I" -> IF a = b THEN COne ELSE CZero
      [] l = "X" -> IF a # b THEN COne ELSE CZero
      [] l = "Y" -> IF a = b THEN CZero ELSE IF a = 0 THEN CNeg(CI) ELSE CI
      [] l = "Z" -> IF a # b THEN CZero ELSE IF a = 0 THEN COne ELSE CNeg(COne)

\* entry (r, c) of the Kronecker product of the letters of word along wire_order
\* (wire_order[1] is the most significant bit)
WordEntry(word, wire_order, r, c) ==
    LET n == Len(wire_order)
    IN CProdTo([p \in 1..n |->
                  PauliEntry(word[wire_order[p]], IndexBits(r, n)[p], IndexBits(c, n)[p])], n)

\* obs.sparse_matrix(wire_order=...) of a Hamiltonian: sum of coeff * word
sparse_matrix(ham, wire_order) ==
    LET N == Pow2(Len(wire_order))
    IN [r \in 0..(N - 1) |-> [c \in 0..(N - 1) |->
          CSumTo([i \in 1..Len(ham) |->
                    CMul(ham[i].coeff, WordEntry(ham[i].word, wire_order, r, c))], Len(ham))]]

Coeffs == {<<2, 0>>, CI}
\* Pauli words over wires 0..k-1 with at most one letter Y or Z, identity elsewhere
Words(k) == {w \in [0..(k - 1) -> {"I", "Y", "Z"}] :
               Cardinality({q \in 0..(k - 1) : w[q] # "I"}) <= 1}
HamTerms(k) == [coeff : Coeffs, word : Words(k)]
Hamiltonians(k) == SeqUpTo(HamTerms(k), MaxTerms)

\* ----------------------------------------------------- measurement processes
\* classes deriving from StateMeasurement, and the others
StateMeasurementClasses == {"ExpectationMP", "VarianceMP", "ProbabilityMP"}
OtherMeasurementClasses == {"SampleMP", "CountsMP"}

\* obs is the name of the observable, "None" when the measurement carries no
\* observable (obs is None, the measurement is given by wires and eigenvalues)
MeasurementProcesses(k) ==
    [cls : {"ExpectationMP"}, obs : {"Hamiltonian"}, gates : {<<>>}, ham : Hamiltonians(k)]
    \cup [cls : {"ExpectationMP"}, obs : {"SparseHamiltonian"}, gates : {<<>>},
          ham : {<<t>> : t \in HamTerms(k)}]
    \cup [cls : StateMeasurementClasses \ {"ExpectationMP"},
          obs : {"Hamiltonian", "SparseHamiltonian"}, gates : {<<>>}, ham : {<<>>}]
    \cup [cls : StateMeasurementClasses, obs : {"Hermitian"},
          gates : SeqUpTo(Gates(k), MaxGates), ham : {<<>>}]
    \cup [cls : {"ExpectationMP", "ProbabilityMP"} \cup OtherMeasurementClasses, obs : {"None"},
          gates : {<<>>}, ham : {<<>>}]
    \cup [cls : OtherMeasurementClasses, obs : {"Hermitian", "Hamiltonian"},
          gates : {<<>>}, ham : {<<>>}]

\* isinstance(measurementprocess, StateMeasurement)
IsStateMeasurement(m) == m.cls \in StateMeasurementClasses
\* isinstance(measurementprocess, ExpectationMP)
IsExpectationMP(m) == m.cls = "ExpectationMP"

\* the single-qubit Pauli observables: eigenvalues and diagonalizing gates
PauliObsNames == {"PauliX", "PauliY", "PauliZ"}
PauliEigvals == <<1, -1>>
diagonalizing_gates(name, w) ==
    CASE name = "PauliX" -> <<[name |-> "Hadamard", wire |-> w]>>
      [] name = "PauliY" -> <<[name |-> "PauliZ", wire |-> w], [name |-> "S", wire |-> w],
                              [name |-> "Hadamard", wire |-> w]>>
      [] name = "PauliZ" -> <<>>

\* expectation values of a Pauli observable on one wire of a state of rank k
PauliExpectations(k) ==
    {[cls |-> "ExpectationMP", obs |-> name, gates |-> diagonalizing_gates(name, w),
      ham |-> <<>>, wires |-> <<w>>] : name \in PauliObsNames, w \in 0..(k - 1)}

\* squared magnitude of an amplitude
AbsSq(z) == z[1] * z[1] + z[2] * z[2]
RECURSIVE SumTo(_, _)
SumTo(s, n) == IF n = 0 THEN 0 ELSE SumTo(s, n - 1) + s[n]

\* ExpectationMP.process_state: the probabilities of the basis states, each
\* weighted by the eigenvalue of the bit it has on the wire of the observable
expval_process_state(m, flat, wires) ==
    LET n == Len(wires)
        p == CHOOSE i \in 1..n : wires[i] = m.wires[1]
    IN SumTo([i \in 1..Len(flat) |->
                PauliEigvals[IndexBits(i - 1, n)[p] + 1] * AbsSq(flat[i])], Len(flat))

\* the measurement processes whose process_state is modelled by its value
HasEigvals(m) == m.cls = "ExpectationMP" /\ m.obs \in PauliObsNames

\* measurementprocess.process_state(flat, wires): the measurement's own reduction
process_state(m, flat, wires) ==
    IF HasEigvals(m) THEN expval_process_state(m, flat, wires)
    ELSE [cls |-> m.cls, obs |-> m.obs, flat |-> flat, wires |-> wires]

\* measurementprocess.obs.name in ("Hamiltonian", "SparseHamiltonian"), evaluated
\* for an ExpectationMP only: reading .name of None raises AttributeError
ObsNameTest(m) ==
    IF m.obs = "None" THEN "AttributeError"
    ELSE IF m.obs \in {"Hamiltonian", "SparseHamiltonian"} THEN "state_hamiltonian_expval"
    ELSE "state_diagonalizing_gates"

\* the arguments of the exception: `raise NotImplementedError` instantiates the
\* class without arguments; the AttributeError carries the interpreter's message
NoneNameMsg == "'NoneType' object has no attribute 'name'"
ExceptionArgs(exc) == IF exc = "NotImplementedError" THEN <<>> ELSE <<NoneNameMsg>>

\* variant of get_measurement_function without the test for StateMeasurement
get_measurement_function_AnyMeasurement(m) ==
    IF IsExpectationMP(m) THEN ObsNameTest(m) ELSE "state_diagonalizing_gates"

\* get_measurement_function: the strategy, or the exception raised
get_measurement_function(m) ==
    IF IsStateMeasurement(m)
    THEN IF IsExpectationMP(m) THEN ObsNameTest(m) ELSE "state_diagonalizing_gates"
    ELSE "NotImplementedError"

\* <psi|H|psi> as state_hamiltonian_expval computes it
MatVec(H, v, N) == [r \in 1..N |-> CSumTo([c \in 1..N |-> CMul(H[r - 1][c - 1], v[c])], N)]
RowDot(u, v, N) == CSumTo([r \in 1..N |-> CMul(u[r], v[r])], N)

\* variant of state_hamiltonian_expval whose bra is not conjugated
state_hamiltonian_expval_NoConj(m, t) ==
    LET total_wires == Rank(t)
        Hmat == sparse_matrix(m.ham, WireRange(total_wires))
        N == Pow2(total_wires)
        flat == Flatten(t)
        new_ket == MatVec(Hmat, flat, N)
        res == RowDot(flat, new_ket, N)
    IN CReal(res)

state_hamiltonian_expval(m, t) ==
    LET total_wires == Rank(t)
        Hmat == sparse_matrix(m.ham, WireRange(total_wires))
        N == Pow2(total_wires)
        flat == Flatten(t)
        bra == [i \in 1..N |-> CConj(flat[i])]
        new_ket == MatVec(Hmat, flat, N)
        res == RowDot(bra, new_ket, N)
    IN CReal(res)

\* variant of BindNewState that writes the result into the object `state` names
BindNewState_InPlace(h, ref, t) == [heap |-> [h EXCEPT ![ref] = t], ref |-> ref]

\* `state = apply_operation(op, state)`: the result is a new object and the
\* local name is rebound to it
BindNewState(h, ref, t) == [heap |-> Append(h, t), ref |-> Len(h) + 1]

\* ---------------------------------------------------------- pauli_decompose
\* A matrix is [shape |-> <<rows, cols>>, data |-> [<<r, c>> |-> entry]], r and c
\* counted from 0.  A coefficient is a complex number with rational parts,
\* [re, im, den] standing for (re + i*im) / den in lowest terms, den a power of 2.
Abs(x) == IF x < 0 THEN 0 - x ELSE x
Max(x, y) == IF x < y THEN y ELSE x

RECURSIVE Pow4(_)
Pow4(n) == IF n <= 0 THEN 1 ELSE 4 * Pow4(n - 1)

\* int(ceil(log2(m))) and int(log2(m)) for m >= 1
RECURSIVE Log2Ceil(_)
Log2Ceil(m) == IF m <= 1 THEN 0 ELSE 1 + Log2Ceil((m + 1) \div 2)
RECURSIVE Log2Floor(_)
Log2Floor(m) == IF m <= 1 THEN 0 ELSE 1 + Log2Floor(m \div 2)

\* bitwise exclusive or of two naturals
RECURSIVE BitXor(_, _)
BitXor(x, y) ==
    IF x = 0 /\ y = 0 THEN 0
    ELSE (((x % 2) + (y % 2)) % 2) + 2 * BitXor(x \div 2, y \div 2)

\* bit of r on axis idx (0-based, axis 0 the most significant) of n axes
AxisBit(r, idx, n) == (r \div Pow2(n - 1 - idx)) % 2

RECURSIVE Reduced(_, _, _)
Reduced(re, im, den) ==
    IF den > 1 /\ re % 2 = 0 /\ im % 2 = 0
    THEN Reduced(re \div 2, im \div 2, den \div 2)
    ELSE [re |-> re, im |-> im, den |-> den]
\* z / d
CDivide(z, d) == Reduced(z[1], z[2], d)
\* qml.math.allclose(coefficient, 0): for entries that are Gaussian integers a
\* non-zero coefficient has modulus at least 1 / 2^n, far above the tolerance
IsCloseToZero(q) == q.re = 0 /\ q.im = 0

NoWireOrder == [given |-> FALSE, order |-> <<>>]

\* variant of Pad that puts the zeros before the entries
Pad_Before(matrix, d0, d1) ==
    LET rows == matrix.shape[1] + d0
        cols == matrix.shape[2] + d1
    IN [shape |-> <<rows, cols>>,
        data |-> [q \in (0..(rows - 1)) \X (0..(cols - 1)) |->
                    IF q[1] >= d0 /\ q[2] >= d1
                    THEN matrix.data[<<q[1] - d0, q[2] - d1>>] ELSE CZero]]

\* qml.math.pad(matrix, ((0, d0), (0, d1)), constant_values=0)
Pad(matrix, d0, d1) ==
    LET rows == matrix.shape[1] + d0
        cols == matrix.shape[2] + d1
    IN [shape |-> <<rows, cols>>,
        data |-> [q \in (0..(rows - 1)) \X (0..(cols - 1)) |->
                    IF q[1] < matrix.shape[1] /\ q[2] < matrix.shape[2]
                    THEN matrix.data[q] ELSE CZero]]

\* the `if padding:` block
Padded(matrix, padding) ==
    IF padding
    THEN LET shape == matrix.shape
             num_qubits == Log2Ceil(Max(shape[1], shape[2]))
         IN IF shape[1] # shape[2] \/ shape[1] # Pow2(num_qubits)
            THEN Pad(matrix, Abs(shape[1] - Pow2(num_qubits)), Abs(shape[2] - Pow2(num_qubits)))
            ELSE matrix
    ELSE matrix

\* variant of Indices that xors row idx with idx + 1
RECURSIVE Indices_XorIndex(_, _)
Indices_XorIndex(N, k) ==
    IF k = 0 THEN <<[j \in 0..(N - 1) |-> j]>>
    ELSE LET indices == Indices_XorIndex(N, k - 1)
         IN Append(indices, [j \in 0..(N - 1) |-> BitXor(indices[k][j], k)])

\* the list `indices` of index rows: row 0 is range(N), row idx + 1 is row idx
\* xor-ed with (idx + 1) ^ idx
RECURSIVE Indices(_, _)
Indices(N, k) ==
    IF k = 0 THEN <<[j \in 0..(N - 1) |-> j]>>
    ELSE LET indices == Indices(N, k - 1)
         IN Append(indices, [j \in 0..(N - 1) |-> BitXor(indices[k][j], BitXor(k, k - 1))])

\* term_mat = stack([matrix[idx, indice] ...]): a new array
Permuted(matrix) ==
    LET N == matrix.shape[1]
        indices == Indices(N, N - 1)
    IN [q \in (0..(N - 1)) \X (0..(N - 1)) |-> matrix.data[<<q[1], indices[q[1] + 1][q[2]]>>]]

\* An array in memory: its entries are data[q] / scale.  The array the caller
\* hands over has scale 1.
Array(matrix) == [shape |-> matrix.shape, data |-> matrix.data, scale |-> 1]

\* variant of Stacked in which term_mat shares the memory of matrix
Stacked_Shared(matrix) == [memory |-> "matrix", data |-> Permuted(matrix)]

\* the memory term_mat names after the stack of the indexed rows: indexing
\* with an index array copies, and stack allocates the result
Stacked(matrix) == [memory |-> "new", data |-> Permuted(matrix)]

\* one pass of the loop `for idx in range(num_qubits)` over term_mat viewed with
\* 2n axes of size 2: rows 0,1 of axis idx become sum and difference, then the
\* block with bit 1 on axis idx and on axis idx + n is multiplied by 1j
HadamardStep(T, idx, n) ==
    LET N == Pow2(n)
        w == Pow2(n - 1 - idx)
    IN [q \in (0..(N - 1)) \X (0..(N - 1)) |->
          LET r == q[1]
              c == q[2]
              r0 == r - AxisBit(r, idx, n) * w
              r1 == r0 + w
              v == IF AxisBit(r, idx, n) = 0
                   THEN CAdd(T[<<r0, c>>], T[<<r1, c>>])
                   ELSE CSub(T[<<r0, c>>], T[<<r1, c>>])
          IN IF AxisBit(r, idx, n) = 1 /\ AxisBit(c, idx, n) = 1 THEN CMul(v, CI) ELSE v]

RECURSIVE HadamardTransform(_, _, _)
HadamardTransform(T, n, passes) ==
    IF passes = 0 THEN T
    ELSE HadamardStep(HadamardTransform(T, n, passes - 1), passes - 1, n)

\* the L-th element of product("IXYZ", repeat=n)
PauliRep(L, n) == [p \in 1..n |-> <<"I", "X", "Y", "Z">>[((L \div Pow4(n - p)) % 4) + 1]]

\* int("".join(map(str, bits)), 2)
RECURSIVE BitsToInt(_, _)
BitsToInt(bits, n) == IF n = 0 THEN 0 ELSE 2 * BitsToInt(bits, n - 1) + bits[n]

\* variant of Coefficient that reads at row x and column z
Coefficient_SwappedMasks(T, pauli_rep, n) ==
    LET zbits == [p \in 1..n |-> IF pauli_rep[p] \in {"Y", "Z"} THEN 1 ELSE 0]
        xbits == [p \in 1..n |-> IF pauli_rep[p] \in {"X", "Y"} THEN 1 ELSE 0]
    IN CDivide(T[<<BitsToInt(xbits, n), BitsToInt(zbits, n)>>], Pow2(n))

\* the coefficient read for pauli_rep from the transformed and divided term_mat;
\* without qubits the index tuple is empty and the whole 1 x 1 array is read
Coefficient(T, pauli_rep, n) ==
    LET zbits == [p \in 1..n |-> IF pauli_rep[p] \in {"Y", "Z"} THEN 1 ELSE 0]
        xbits == [p \in 1..n |-> IF pauli_rep[p] \in {"X", "Y"} THEN 1 ELSE 0]
    IN CDivide(T[<<BitsToInt(zbits, n), BitsToInt(xbits, n)>>], Pow2(n))

\* variant of Observables that leaves the identities out of every term
Observables_HideAll(pauli_rep, wire_order, hide_identity) ==
    LET n == Len(pauli_rep)
        all == [p \in 1..n |-> [o |-> pauli_rep[p], w |-> wire_order[p]]]
    IN IF hide_identity
       THEN SelectSeq(all, LAMBDA f : f.o # "I")
       ELSE all

\* variant of Observables that numbers the wires instead of reading wire_order
Observables_RangeWires(pauli_rep, wire_order, hide_identity) ==
    LET n == Len(pauli_rep)
        all == [p \in 1..n |-> [o |-> pauli_rep[p], w |-> p - 1]]
    IN IF hide_identity /\ ~(\A p \in 1..n : pauli_rep[p] = "I")
       THEN SelectSeq(all, LAMBDA f : f.o # "I")
       ELSE all

\* the list `observables` of (letter, wire) pairs of one term
Observables(pauli_rep, wire_order, hide_identity) ==
    LET n == Len(pauli_rep)
        all == [p \in 1..n |-> [o |-> pauli_rep[p], w |-> wire_order[p]]]
    IN IF hide_identity /\ ~(\A p \in 1..n : pauli_rep[p] = "I")
       THEN SelectSeq(all, LAMBDA f : f.o # "I")
       ELSE all

\* terms = ([], []) after the first k labels of the loop over product("IXYZ")
RECURSIVE Terms(_, _, _, _, _)
Terms(T, n, wire_order, hide_identity, k) ==
    IF k = 0 THEN [coeffs |-> <<>>, obs |-> <<>>]
    ELSE LET sofar == Terms(T, n, wire_order, hide_identity, k - 1)
             pauli_rep == PauliRep(k - 1, n)
             coefficient == Coefficient(T, pauli_rep, n)
             observables == Observables(pauli_rep, wire_order, hide_identity)
         IN IF ~IsCloseToZero(coefficient) /\ observables # <<>>
            THEN [coeffs |-> Append(sofar.coeffs, coefficient),
                  obs |-> Append(sofar.obs, observables)]
            ELSE sofar

\* a dict with key k set to v
DictSet(d, k, v) == [x \in (DOMAIN d) \cup {k} |-> IF x = k THEN v ELSE d[x]]
EmptyDict == [x \in {} |-> 0]

\* variant of WordDict that writes every letter under the wire of the first pair
RECURSIVE WordDict_OneKey(_, _)
WordDict_OneKey(obs_n_wires, k) ==
    IF k = 0 THEN EmptyDict
    ELSE DictSet(WordDict_OneKey(obs_n_wires, k - 1), obs_n_wires[1].w, obs_n_wires[k].o)

\* PauliWord({w: o for o, w in obs_n_wires}): the dict of the pairs, identities stripped
RECURSIVE WordDict(_, _)
WordDict(obs_n_wires, k) ==
    IF k = 0 THEN EmptyDict
    ELSE DictSet(WordDict(obs_n_wires, k - 1), obs_n_wires[k].w, obs_n_wires[k].o)
PauliWord(mapping) ==
    [w \in {x \in DOMAIN mapping : mapping[x] # "I"} |-> mapping[w]]

\* PauliSentence({PauliWord(...): coeff for coeff, obs_n_wires in zip(*terms)})
RECURSIVE SentenceDict(_, _)
SentenceDict(terms, k) ==
    IF k = 0 THEN EmptyDict
    ELSE DictSet(SentenceDict(terms, k - 1),
                 PauliWord(WordDict(terms.obs[k], Len(terms.obs[k]))), terms.coeffs[k])

\* int(x) of an infinite float x: log2(0) is -inf, and int(-inf) raises OverflowError
OverflowMsg == "cannot convert float infinity to integer"

\* the checks after the padding, in the order of the code: the three that raise
\* ValueError, and int(log2(shape[0])) between the first and the second
ShapeError(shape, wire_order) ==
    IF shape[1] # shape[2] THEN "should be square"
    ELSE IF shape[1] = 0 THEN OverflowMsg
    ELSE LET num_qubits == Log2Floor(shape[1])
         IN IF shape[1] # Pow2(num_qubits) THEN "power of 2"
            ELSE IF wire_order.given /\ Len(wire_order.order) # num_qubits
                 THEN "number of wires"
            ELSE "none"

\* pauli_decompose(matrix, hide_identity, wire_order, pauli, padding)
pauli_decompose(matrix, hide_identity, wire_order, pauli, padding) ==
    LET padded == Padded(matrix, padding)
        shape == padded.shape
        num_qubits == Log2Floor(shape[1])
        order == IF wire_order.given THEN wire_order.order ELSE WireRange(num_qubits)
        term_mat == HadamardTransform(Stacked(padded).data, num_qubits, num_qubits)
        terms == Terms(term_mat, num_qubits, order, hide_identity, Pow4(num_qubits))
        \* int(ceil(log2(max(shape)))) of the padding block, then the checks
        error == IF padding /\ Max(matrix.shape[1], matrix.shape[2]) = 0
                 THEN OverflowMsg
                 ELSE ShapeError(shape, wire_order)
    IN IF error # "none"
       THEN [kind |-> "raise",
             exc |-> IF error = OverflowMsg THEN "OverflowError" ELSE "ValueError",
             msg |-> error]
       ELSE IF pauli
       THEN [kind |-> "return", type |-> "PauliSentence",
             sentence |-> SentenceDict(terms, Len(terms.coeffs))]
       ELSE [kind |-> "return", type |-> "Hamiltonian",
             coeffs |-> terms.coeffs, ops |-> terms.obs]

\* the caller's array after the call: pad allocates a new array; the
\* assignments to term_mat[a], term_mat[b], term_mat[c] and the division by
\* shape[0] write into the memory that term_mat names
CallerArray(matrix, wire_order, padding) ==
    LET padded == Padded(matrix, padding)
        shape == padded.shape
        num_qubits == Log2Floor(shape[1])
        reached == ~(padding /\ Max(matrix.shape[1], matrix.shape[2]) = 0)
                   /\ ShapeError(shape, wire_order) = "none"
    IN IF reached /\ padded = matrix /\ Stacked(padded).memory = "matrix"
       THEN [shape |-> shape,
             data |-> HadamardTransform(Stacked(padded).data, num_qubits, num_qubits),
             scale |-> shape[1]]
       ELSE Array(matrix)

\* the arguments handed to pauli_decompose
MatrixValues == {COne, CI}
Positions(a, b) == (0..(a - 1)) \X (0..(b - 1))
\* the zero matrix, the matrices with one non-zero entry, and those with two
\* non-zero entries whose row and column differ in the same bits: the pairs of
\* entries that feed the same Pauli labels, so that coefficients can cancel
SameMask(a, b) ==
    {p \in Positions(a, b) \X Positions(a, b) :
        BitXor(p[1][1], p[1][2]) = BitXor(p[2][1], p[2][2])}
MatrixData(a, b) ==
    {[q \in Positions(a, b) |-> IF q = p[1] THEN v1 ELSE IF q = p[2] THEN v2 ELSE CZero] :
        p \in SameMask(a, b), v1 \in MatrixValues, v2 \in MatrixValues}
    \cup {[q \in Positions(a, b) |-> CZero]}
Matrices == UNION {[shape : {<<a, b>>}, data : MatrixData(a, b)] : a \in 0..MaxSide, b \in 0..MaxSide}
\* None, or the wires n-1, ..., 0 for a number n of qubits a matrix can have
WireOrders ==
    {NoWireOrder} \cup {[given |-> TRUE, order |-> [i \in 1..n |-> n - i]] :
                           n \in 0..Log2Ceil(MaxSide)}
DecomposeArgs ==
    [matrix : Matrices, hide_identity : BOOLEAN, wire_order : WireOrders,
     pauli : BOOLEAN, padding : BOOLEAN]

\* ----------------------------------------------------------- pauli_sentence
\* An operator is a record: an atom [type, wires], a Tensor [type, obs], a Prod
\* or a Sum [type, operands], an SProd [type, scalar, base] or a Hamiltonian
\* [type, coeffs, ops].  A Pauli word is a function from wires to letters X, Y,
\* Z; a Pauli sentence is a function from words to coefficients.
PauliTypes == {"PauliX", "PauliY", "PauliZ"}
LetterOf(type) ==
    CASE type = "PauliX" -> "X" [] type = "PauliY" -> "Y" [] type = "PauliZ" -> "Z"

\* variant of PauliMul in which the reversed products carry the phase i too
PauliMul_NoSign(a, b) ==
    CASE a = "I" -> [letter |-> b, phase |-> COne]
      [] b = "I" -> [letter |-> a, phase |-> COne]
      [] a = b -> [letter |-> "I", phase |-> COne]
      [] {a, b} = {"X", "Y"} -> [letter |-> "Z", phase |-> CI]
      [] {a, b} = {"Y", "Z"} -> [letter |-> "X", phase |-> CI]
      [] {a, b} = {"Z", "X"} -> [letter |-> "Y", phase |-> CI]

\* product of two single-qubit Pauli letters: the letter and the phase
PauliMul(a, b) ==
    CASE a = "I" -> [letter |-> b, phase |-> COne]
      [] b = "I" -> [letter |-> a, phase |-> COne]
      [] a = b -> [letter |-> "I", phase |-> COne]
      [] <<a, b>> = <<"X", "Y">> -> [letter |-> "Z", phase |-> CI]
      [] <<a, b>> = <<"Y", "Z">> -> [letter |-> "X", phase |-> CI]
      [] <<a, b>> = <<"Z", "X">> -> [letter |-> "Y", phase |-> CI]
      [] <<a, b>> = <<"Y", "X">> -> [letter |-> "Z", phase |-> CNeg(CI)]
      [] <<a, b>> = <<"Z", "Y">> -> [letter |-> "X", phase |-> CNeg(CI)]
      [] <<a, b>> = <<"X", "Z">> -> [letter |-> "Y", phase |-> CNeg(CI)]

LetterAt(word, q) == IF q \in DOMAIN word THEN word[q] ELSE "I"

\* PauliWord.__mul__: the product word, identities left out, and the phase
WordMul(w1, w2) ==
    LET wires == SetToSeq((DOMAIN w1) \cup (DOMAIN w2))
        prods == [k \in 1..Len(wires) |-> PauliMul(LetterAt(w1, wires[k]), LetterAt(w2, wires[k]))]
        kept == {k \in 1..Len(wires) : prods[k].letter # "I"}
    IN [word |-> [q \in {wires[k] : k \in kept} |->
                    PauliMul(LetterAt(w1, q), LetterAt(w2, q)).letter],
        phase |-> CProdTo([k \in 1..Len(wires) |-> prods[k].phase], Len(wires))]

CoeffAt(ps, w) == IF w \in DOMAIN ps THEN ps[w] ELSE CZero

\* PauliSentence.__add__: coefficients of identical words are added, zeros kept
SentenceAdd(a, b) ==
    [w \in (DOMAIN a) \cup (DOMAIN b) |-> CAdd(CoeffAt(a, w), CoeffAt(b, w))]

\* PauliSentence.__mul__: every pair of words multiplied, the phase times the
\* two coefficients accumulated under the product word
SentenceMul(a, b) ==
    LET pairs == SetToSeq((DOMAIN a) \X (DOMAIN b))
        prods == [k \in 1..Len(pairs) |-> WordMul(pairs[k][1], pairs[k][2])]
        contrib == [k \in 1..Len(pairs) |->
                      CMul(prods[k].phase, CMul(a[pairs[k][1]], b[pairs[k][2]]))]
        words == {prods[k].word : k \in 1..Len(pairs)}
    IN [w \in words |->
          CSumTo([k \in 1..Len(pairs) |-> IF prods[k].word = w THEN contrib[k] ELSE CZero],
                 Len(pairs))]

\* `for pw, coeff in ps.items(): ps[pw] = coeff * scalar`
Scaled(ps, scalar) == [w \in DOMAIN ps |-> CMul(ps[w], scalar)]

\* is_pauli_word(op): a single-qubit Pauli or Identity, or a Tensor of such
RECURSIVE is_pauli_word(_)
is_pauli_word(op) ==
    CASE op.type \in PauliTypes \cup {"Identity"} -> TRUE
      [] op.type = "Tensor" -> \A k \in 1..Len(op.obs) : is_pauli_word(op.obs[k])
      [] OTHER -> FALSE

ErrMsg == "Op must be a linear combination of Pauli operators only"
Raised(op) == [kind |-> "raise", exc |-> "ValueError", msg |-> ErrMsg, got |-> op]
Value(ps) == [kind |-> "return", value |-> ps]

\* variant of AtomSentence with the letters of the PauliY and the PauliZ handler
\* exchanged
AtomSentence_SwappedYZ(op) ==
    CASE op.type = "PauliX" -> [w \in {[q \in {op.wires[1]} |-> "X"]} |-> COne]
      [] op.type = "PauliY" -> [w \in {[q \in {op.wires[1]} |-> "Z"]} |-> COne]
      [] op.type = "PauliZ" -> [w \in {[q \in {op.wires[1]} |-> "Y"]} |-> COne]
      [] op.type = "Identity" -> [w \in {EmptyDict} |-> COne]

\* the handlers registered for PauliX, PauliY, PauliZ and Identity
AtomSentence(op) ==
    CASE op.type = "PauliX" -> [w \in {[q \in {op.wires[1]} |-> "X"]} |-> COne]
      [] op.type = "PauliY" -> [w \in {[q \in {op.wires[1]} |-> "Y"]} |-> COne]
      [] op.type = "PauliZ" -> [w \in {[q \in {op.wires[1]} |-> "Z"]} |-> COne]
      [] op.type = "Identity" -> [w \in {EmptyDict} |-> COne]

\* variant of Combine that leaves out an operand whose conversion raised
Combine_SkipRaised(acc, next, times) ==
    IF acc.kind = "raise" THEN next
    ELSE IF next.kind = "raise" THEN acc
    ELSE Value(IF times THEN SentenceMul(acc.value, next.value)
               ELSE SentenceAdd(acc.value, next.value))

\* variant of Combine that puts the new factor on the left
Combine_Swapped(acc, next, times) ==
    IF acc.kind = "raise" THEN acc
    ELSE IF next.kind = "raise" THEN next
    ELSE Value(IF times THEN SentenceMul(next.value, acc.value)
               ELSE SentenceAdd(next.value, acc.value))

\* reduce(lambda a, b: a * b, factors) and reduce(lambda a, b: a + b, summands)
\* over the results of the conversions: the first exception ends the fold
Combine(acc, next, times) ==
    IF acc.kind = "raise" THEN acc
    ELSE IF next.kind = "raise" THEN next
    ELSE Value(IF times THEN SentenceMul(acc.value, next.value)
               ELSE SentenceAdd(acc.value, next.value))

RECURSIVE Reduce(_, _, _)
Reduce(results, k, times) ==
    IF k = 1 THEN results[1]
    ELSE Combine(Reduce(results, k - 1, times), results[k], times)

\* variant of SProdSentence that leaves the coefficients as they are
SProdSentence_Unscaled(op, base) ==
    IF base.kind = "raise" THEN base ELSE Value(base.value)

\* the handler registered for SProd, given the conversion of op.base
SProdSentence(op, base) ==
    IF base.kind = "raise" THEN base ELSE Value(Scaled(base.value, op.scalar))

\* variant of HamiltonianSummands that pairs the coefficients with the terms in
\* reverse order
HamiltonianSummands_Reversed(op, terms) ==
    LET n == Len(op.ops)
    IN [k \in 1..n |-> Value(Scaled(terms[k].value, op.coeffs[n + 1 - k]))]

\* the summands of the Hamiltonian handler, each scaled by its coefficient
HamiltonianSummands(op, terms) ==
    [k \in 1..Len(op.ops) |-> Value(Scaled(terms[k].value, op.coeffs[k]))]

\* _pauli_sentence(op): the single dispatch on the type of op
RECURSIVE _pauli_sentence(_)
_pauli_sentence(op) ==
    CASE op.type \in PauliTypes \cup {"Identity"} -> Value(AtomSentence(op))
      [] op.type = "Tensor" ->
           IF ~is_pauli_word(op) THEN Raised(op)
           ELSE Reduce([k \in 1..Len(op.obs) |-> _pauli_sentence(op.obs[k])],
                       Len(op.obs), TRUE)
      [] op.type = "Prod" ->
           Reduce([k \in 1..Len(op.operands) |-> _pauli_sentence(op.operands[k])],
                  Len(op.operands), TRUE)
      [] op.type = "SProd" -> SProdSentence(op, _pauli_sentence(op.base))
      [] op.type = "Hamiltonian" ->
           IF ~(\A k \in 1..Len(op.ops) : is_pauli_word(op.ops[k])) THEN Raised(op)
           ELSE LET summands == HamiltonianSummands(op,
                        [k \in 1..Len(op.ops) |-> _pauli_sentence(op.ops[k])])
                IN IF Len(summands) > 0 THEN Reduce(summands, Len(summands), FALSE)
                   ELSE Value(EmptyDict)
      [] op.type = "Sum" ->
           Reduce([k \in 1..Len(op.operands) |-> _pauli_sentence(op.operands[k])],
                  Len(op.operands), FALSE)
      [] OTHER -> Raised(op)

\* the operators handed to pauli_sentence
Atom(type, wires) == [type |-> type, wires |-> wires]
X0 == Atom("PauliX", <<0>>)
Y0 == Atom("PauliY", <<0>>)
Z0 == Atom("PauliZ", <<0>>)
Z1 == Atom("PauliZ", <<1>>)
PauliFamily == {X0, Y0, Z0, Z1, Atom("Identity", <<1>>), Atom("Identity", <<1, 0>>)}
\* a non-Pauli observable and a non-Pauli operation
Hadamard0 == Atom("Hadamard", <<0>>)
RX0 == Atom("RX", <<0>>)
ObservableAtoms == PauliFamily \cup {Hadamard0}
AtomOps == ObservableAtoms \cup {RX0}
Scalars == {<<2, 0>>, <<-1, 0>>, CI}

SeqFromTo(S, lo, hi) == UNION {[1..m -> S] : m \in lo..hi}
TensorOps(pool) == [type : {"Tensor"}, obs : SeqFromTo(pool, 2, MaxOperands)]
ProdOps(pool) == [type : {"Prod"}, operands : SeqFromTo(pool, 2, MaxOperands)]
SumOps(pool) == [type : {"Sum"}, operands : SeqFromTo(pool, 2, MaxOperands)]
SProdOps(pool) == [type : {"SProd"}, scalar : Scalars, base : pool]
HamiltonianOps(pool) ==
    UNION {[type : {"Hamiltonian"}, coeffs : [1..m -> {<<2, 0>>, <<-1, 0>>}], ops : [1..m -> pool]] :
             m \in 0..MaxOperands}

\* operands of the composites of composites
NestedPool ==
    {X0, Z1, RX0,
     [type |-> "Tensor", obs |-> <<X0, Z1>>],
     [type |-> "Tensor", obs |-> <<X0, Hadamard0>>],
     [type |-> "Prod", operands |-> <<Y0, Z0>>],
     [type |-> "Sum", operands |-> <<X0, Y0>>],
     [type |-> "Sum", operands |-> <<X0, RX0>>],
     [type |-> "SProd", scalar |-> <<2, 0>>, base |-> X0],
     [type |-> "SProd", scalar |-> <<-1, 0>>, base |-> X0],
     [type |-> "SProd", scalar |-> CI, base |-> [type |-> "Sum", operands |-> <<X0, Z1>>]],
     [type |-> "Hamiltonian", coeffs |-> <<<<2, 0>>, <<-1, 0>>>>, ops |-> <<X0, X0>>]}

Operators ==
    AtomOps
    \cup TensorOps(ObservableAtoms)
    \cup ProdOps(AtomOps) \cup SumOps(AtomOps) \cup SProdOps(AtomOps)
    \cup HamiltonianOps({X0, Y0, Z1, Hadamard0, [type |-> "Tensor", obs |-> <<X0, Z1>>],
                         [type |-> "Tensor", obs |-> <<Y0, Hadamard0>>]})
    \cup ProdOps(NestedPool) \cup SumOps(NestedPool) \cup SProdOps(NestedPool)

\* the first nested operand of a composite operator
HasOperands(op) ==
    \/ op.type \in {"Tensor", "Prod", "Sum", "SProd"}
    \/ op.type = "Hamiltonian" /\ Len(op.ops) > 0
FirstOperand(op) ==
    CASE op.type = "Tensor" -> op.obs[1]
      [] op.type = "SProd" -> op.base
      [] op.type = "Hamiltonian" -> op.ops[1]
      [] OTHER -> op.operands[1]

\* variant of OperandSentence that takes the sentence the operand has cached
OperandSentence_FromCache(operand, reps) ==
    IF reps # <<>>
    THEN [cached |-> TRUE, r |-> [kind |-> "return", value |-> reps[1]]]
    ELSE [cached |-> FALSE, r |-> _pauli_sentence(operand)]

\* `ps = _pauli_sentence(op.base)` and `ps = _pauli_sentence(term)`: the
\* sentence object a handler obtains for an operand is built by the dispatch;
\* the operand's _pauli_rep (reps, empty for None) is not read
OperandSentence(operand, reps) == [cached |-> FALSE, r |-> _pauli_sentence(operand)]

\* the object in the `_pauli_rep` of the first operand after _pauli_sentence(op):
\* the handlers of SProd and Hamiltonian assign ps[pw] in the object they obtained
OperandRepsAfter(op, reps) ==
    IF op.type = "SProd"
    THEN LET ps == OperandSentence(op.base, reps)
         IN IF ps.cached /\ ps.r.kind = "return"
            THEN <<Scaled(ps.r.value, op.scalar)>> ELSE reps
    ELSE IF op.type = "Hamiltonian" /\ Len(op.ops) > 0
            /\ \A k \in 1..Len(op.ops) : is_pauli_word(op.ops[k])
    THEN LET ps == OperandSentence(op.ops[1], reps)
         IN IF ps.cached /\ ps.r.kind = "return"
            THEN <<Scaled(ps.r.value, op.coeffs[1])>> ELSE reps
    ELSE reps

\* sentences an operator can carry in _pauli_rep when it reaches pauli_sentence
CachedSentences == {[w \in {[q \in {0} |-> "X"]} |-> COne], EmptyDict}

\* ------------------------------------------------------ transmon_interaction
\* A frequency or coupling argument is a number or a sequence of numbers: the
\* record holds its number of dimensions and its items (one item for a number).
Scalar(v) == [ndim |-> 0, items |-> <<v>>]
List(s) == [ndim |-> 1, items |-> s]
None == [ndim |-> -1, items |-> <<>>]

QubitsOnlyMsg == "Currently only supporting qubits. Qutrits and qudits are planned in the future."
OmegaMsg == "Number of qubit frequencies omega does not match the provided wires"
CouplingMsg == "Number of coupling terms does not match the provided connections"
MismatchWarning == "Caution, wires and connections do not match."

Repeat(v, n) == [i \in 1..n |-> v]
\* `if qml.math.ndim(x) == 0: x = [x] * n`
AsList(x, n) == IF x.ndim = 0 THEN Repeat(x.items[1], n) ELSE x.items

\* np.unique(connections).tolist(): the wires that occur in the connections
ConnectionWires(connections) ==
    {connections[k][1] : k \in 1..Len(connections)} \cup {connections[k][2] : k \in 1..Len(connections)}
WireSet(wires) == {wires[k] : k \in 1..Len(wires)}

\* the warnings raised at lines 132-136
Warnings(connections, wires) ==
    IF ~(ConnectionWires(connections) \subseteq WireSet(wires)) THEN <<MismatchWarning>> ELSE <<>>

\* variant of ValidationError that tests the lengths before d
ValidationError_LengthsFirst(omega, connections, g, wires, d) ==
    IF Len(AsList(omega, Len(wires))) # Len(wires)
    THEN [exc |-> "ValueError", msg |-> OmegaMsg]
    ELSE IF Len(AsList(g, Len(connections))) # Len(connections)
    THEN [exc |-> "ValueError", msg |-> CouplingMsg]
    ELSE IF d # 2 THEN [exc |-> "NotImplementedError", msg |-> QubitsOnlyMsg]
    ELSE [exc |-> "none"]

\* the first exception of the argument checks, lines 117-155
ValidationError(omega, connections, g, wires, d) ==
    IF d # 2 THEN [exc |-> "NotImplementedError", msg |-> QubitsOnlyMsg]
    ELSE IF Len(AsList(omega, Len(wires))) # Len(wires)
    THEN [exc |-> "ValueError", msg |-> OmegaMsg]
    ELSE IF Len(AsList(g, Len(connections))) # Len(connections)
    THEN [exc |-> "ValueError", msg |-> CouplingMsg]
    ELSE [exc |-> "none"]

\* ad(i, d) @ a(i, d) and ad(i, d) @ a(j, d) + ad(j, d) @ a(i, d)
NumberOp(i) == [op |-> "ad@a", on |-> <<i, i>>]
CouplingOp(c) == [op |-> "ad@a + ad@a", on |-> <<c[1], c[2]>>]

\* variant of Coefficients with the coupling strengths first
Coefficients_CouplingFirst(omega, g) == g \o omega

\* coeffs = list(omega); coeffs += list(g)
Coefficients(omega, g) == omega \o g

\* observables = [... for i in wires]; observables += [... for (i, j) in connections]
TransmonObservables(wires, connections) ==
    [k \in 1..Len(wires) |-> NumberOp(wires[k])]
    \o [k \in 1..Len(connections) |-> CouplingOp(connections[k])]

transmon_interaction(omega, connections, g, wires, anharmonicity, d) ==
    LET err == ValidationError(omega, connections, g, wires, d)
        n_wires == Len(wires)
        om == AsList(omega, n_wires)
        gg == AsList(g, Len(connections))
        anh == IF anharmonicity = None THEN List(Repeat(0, n_wires)) ELSE anharmonicity
    IN IF err.exc = "NotImplementedError"
       THEN [kind |-> "raise", exc |-> err.exc, msg |-> err.msg, warnings |-> <<>>]
       ELSE IF err.exc # "none"
       THEN [kind |-> "raise", exc |-> err.exc, msg |-> err.msg,
             warnings |-> Warnings(connections, wires)]
       ELSE [kind |-> "return",
             warnings |-> Warnings(connections, wires),
             value |-> [coeffs |-> Coefficients(om, gg),
                        observables |-> TransmonObservables(wires, connections),
                        settings |-> [connections |-> connections, omega |-> om, g |-> gg,
                                      anharmonicity |-> anh],
                        reorder_fn |-> "_reorder_AmpPhaseFreq"]]

\* HardwareHamiltonian.wires: the wires of all the observables
HamiltonianWires(H) == UNION {{H.observables[k].on[1], H.observables[k].on[2]} :
                                k \in 1..Len(H.observables)}

\* the arguments: wire labels 0..MaxSites, distinct wires, connections between
\* different wires, frequencies 11, 12, ... and couplings 21, 22, ...
SiteLabels == 0..MaxSites
WireLists == {w \in SeqUpTo(SiteLabels, MaxSites) : \A i, j \in 1..Len(w) : i # j => w[i] # w[j]}
ConnectionLists == SeqUpTo({<<0, 1>>, <<1, 2>>, <<2, 1>>}, MaxSites)
Frequencies == {Scalar(5)} \cup {List([i \in 1..n |-> 10 + i]) : n \in 0..(MaxSites + 1)}
Couplings == {Scalar(7)} \cup {List([i \in 1..n |-> 20 + i]) : n \in 0..(MaxSites + 1)}
TransmonArgs ==
    [fn : {"transmon_interaction"}, omega : Frequencies, connections : ConnectionLists,
     g : Couplings, wires : WireLists, anharmonicity : {None, Scalar(3)}, d : {2, 3}]

\* ------------------------------------------------------------ transmon_drive
\* An amplitude, phase or frequency is a constant or a callable f(p, t); the
\* callables are numbered.  A coefficient value A * trig(x) is the record of
\* A, the name of trig and x.
Const(v) == [callable |-> FALSE, v |-> v]
Fun(n) == [callable |-> TRUE, v |-> n]
\* the callables: f1(p, t) = p + t and f2(p, t) = p * t + 1
Call(n, p, t) == IF n = 1 THEN p + t ELSE p * t + 1
TimesTrig(A, trig_fn, x) == [amp |-> A, trig |-> trig_fn, arg |-> x]

\* the evaluation functions defined in AmplitudeAndPhaseAndFreq.__init__
callable_amp_and_phase_and_freq(o, params, t) ==
    TimesTrig(Call(o.amp.v, params.items[1], t), o.trig_fn,
              Call(o.phase.v, params.items[2], t) + params.items[3] * t)
callable_amp_and_phase(o, params, t) ==
    TimesTrig(Call(o.amp.v, params.items[1], t), o.trig_fn,
              Call(o.phase.v, params.items[2], t) + o.freq.v * t)
callable_amp_and_freq(o, params, t) ==
    TimesTrig(Call(o.amp.v, params.items[1], t), o.trig_fn,
              o.phase.v + Call(o.freq.v, params.items[2], t) * t)
callable_phase_and_freq(o, params, t) ==
    TimesTrig(o.amp.v, o.trig_fn,
              Call(o.phase.v, params.items[1], t) + Call(o.freq.v, params.items[2], t) * t)
callable_amp(o, params, t) ==
    TimesTrig(Call(o.amp.v, params.items[1], t), o.trig_fn, o.phase.v + o.freq.v * t)
callable_phase(o, params, t) ==
    TimesTrig(o.amp.v, o.trig_fn, Call(o.phase.v, params.items[1], t) + o.freq.v * t)
callable_freq(o, params, t) ==
    TimesTrig(o.amp.v, o.trig_fn, o.phase.v + Call(o.freq.v, params.items[1], t) * t)
no_callable(o, params, t) ==
    TimesTrig(o.amp.v, o.trig_fn, o.phase.v + o.freq.v * t)

\* the conditions of the eight `if` statements of __init__, in their order,
\* each with the function it assigns to self.func
FuncNames ==
    <<"callable_amp_and_phase_and_freq", "callable_amp_and_phase", "callable_amp_and_freq",
      "callable_phase_and_freq", "callable_amp", "callable_phase", "callable_freq",
      "no_callable">>
Conditions(a, p, f) ==
    <<a /\ p /\ f, a /\ p /\ ~f, a /\ ~p /\ f, ~a /\ p /\ f,
      a /\ ~p /\ ~f, ~a /\ p /\ ~f, ~a /\ ~p /\ f, ~a /\ ~p /\ ~f>>

\* self.func after __init__: the function of the last condition that held
LastAssigned(conds) ==
    LET held == {k \in 1..Len(conds) : conds[k]}
    IN IF held = {} THEN "unset"
       ELSE FuncNames[CHOOSE k \in held : \A j \in held : j <= k]

\* AmplitudeAndPhaseAndFreq(trig_fn, amp, phase, freq)
AmplitudeAndPhaseAndFreq(trig_fn, amp, phase, freq) ==
    [class |-> "AmplitudeAndPhaseAndFreq",
     amp_is_callable |-> amp.callable,
     phase_is_callable |-> phase.callable,
     freq_is_callable |-> freq.callable,
     func |-> LastAssigned(Conditions(amp.callable, phase.callable, freq.callable)),
     trig_fn |-> trig_fn, amp |-> amp, phase |-> phase, freq |-> freq]

\* AmplitudeAndPhaseAndFreq.__call__(params, t)
CallCoefficient(o, params, t) ==
    CASE o.func = "callable_amp_and_phase_and_freq" -> callable_amp_and_phase_and_freq(o, params, t)
      [] o.func = "callable_amp_and_phase" -> callable_amp_and_phase(o, params, t)
      [] o.func = "callable_amp_and_freq" -> callable_amp_and_freq(o, params, t)
      [] o.func = "callable_phase_and_freq" -> callable_phase_and_freq(o, params, t)
      [] o.func = "callable_amp" -> callable_amp(o, params, t)
      [] o.func = "callable_phase" -> callable_phase(o, params, t)
      [] o.func = "callable_freq" -> callable_freq(o, params, t)
      [] o.func = "no_callable" -> no_callable(o, params, t)

\* 0.5 * sum(PauliX(wire) for wire in wires) and -0.5 * sum(PauliY(wire) ...)
DriveTerm(sign, letter, wires) == [halves |-> sign, pauli |-> letter, wires |-> wires]

\* transmon_drive(amplitude, phase, freq, wires)
transmon_drive(amplitude, phase, freq, wires) ==
    [coeffs |-> <<AmplitudeAndPhaseAndFreq("cos", amplitude, phase, freq),
                  AmplitudeAndPhaseAndFreq("sin", amplitude, phase, freq)>>,
     observables |-> <<DriveTerm(1, "X", wires), DriveTerm(-1, "Y", wires)>>,
     reorder_fn |-> "_reorder_AmpPhaseFreq"]

\* the number of callables among amplitude, phase and frequency
CountTrue(flags) == Cardinality({k \in 1..Len(flags) : flags[k]})
\* the parameters of one coefficient with k callables, as the reordering
\* delivers them: None, the parameter, or the list of the k parameters
ParamsFor(k) ==
    CASE k = 0 -> {None}
      [] k = 1 -> {Scalar(v) : v \in 1..2}
      [] OTHER -> {List(q) : q \in [1..k -> 1..2]}

DriveValues == {Const(2), Const(3), Fun(1), Fun(2)}
DriveArgs ==
    UNION {[fn : {"transmon_drive"}, amplitude : {a}, phase : {p}, freq : {f},
            wires : {<<0>>, <<1, 2>>},
            params : ParamsFor(CountTrue(<<a.callable, p.callable, f.callable>>)),
            t : 0..2] : a \in DriveValues, p \in DriveValues, f \in DriveValues}

\* ------------------------------------------------------ _reorder_AmpPhaseFreq
\* params[idx], idx counted from 0: the item, or IndexError past the end
IndexErrorMsg == "list index out of range"
InRange(params, idx) == idx + 1 <= Len(params)

\* variant of JoinedEntry that wraps a single parameter in a list
JoinedEntry_AlwaysList(params, params_idx, k) ==
    IF k = 0 THEN None
    ELSE List([j \in 1..k |-> params[params_idx + j]])

\* the entry appended for an AmplitudeAndPhaseAndFreq coefficient with k
\* callables: the list of the next k parameters, the next parameter, or None
JoinedEntry(params, params_idx, k) ==
    CASE k = 3 -> List(<<params[params_idx + 1], params[params_idx + 2], params[params_idx + 3]>>)
      [] k = 2 -> List(<<params[params_idx + 1], params[params_idx + 2]>>)
      [] k = 1 -> Scalar(params[params_idx + 1])
      [] OTHER -> None

\* the loop `for i, coeff in enumerate(coeffs_parametrized)` from iteration
\* st.i on (0-based); st holds coeff_idx, params_idx and reordered_params
RECURSIVE reorder_loop(_, _, _)
reorder_loop(st, params, coeffs) ==
    IF st.i = Len(coeffs)
    THEN [kind |-> "return", value |-> st.reordered_params,
          coeff_idx |-> st.coeff_idx, params_idx |-> st.params_idx]
    ELSE LET coeff == coeffs[st.i + 1]
             next == [st EXCEPT !.i = st.i + 1]
         IN IF st.i # st.coeff_idx THEN reorder_loop(next, params, coeffs)
            ELSE IF coeff.class = "AmplitudeAndPhaseAndFreq"
            THEN LET is_callables == <<coeff.phase_is_callable, coeff.amp_is_callable,
                                       coeff.freq_is_callable>>
                     k == CountTrue(is_callables)
                 IN IF k > 0 /\ ~InRange(params, st.params_idx + k - 1)
                    THEN [kind |-> "raise", exc |-> "IndexError", msg |-> IndexErrorMsg]
                    ELSE LET entry == JoinedEntry(params, st.params_idx, k)
                         IN reorder_loop(
                              [next EXCEPT !.reordered_params = Append(Append(@, entry), entry),
                                           !.coeff_idx = @ + 2,
                                           !.params_idx = @ + k],
                              params, coeffs)
            ELSE IF ~InRange(params, st.params_idx)
                 THEN [kind |-> "raise", exc |-> "IndexError", msg |-> IndexErrorMsg]
                 ELSE reorder_loop(
                        [next EXCEPT !.reordered_params =
                                         Append(@, Scalar(params[st.params_idx + 1])),
                                     !.coeff_idx = @ + 1,
                                     !.params_idx = @ + 1],
                        params, coeffs)

\* _reorder_AmpPhaseFreq(params, coeffs_parametrized)
_reorder_AmpPhaseFreq(params, coeffs_parametrized) ==
    reorder_loop([i |-> 0, coeff_idx |-> 0, params_idx |-> 0, reordered_params |-> <<>>],
                 params, coeffs_parametrized)

\* The parametrized coefficients of a Hamiltonian: the two coefficients of each
\* transmon_drive term, one after the other, and other callable coefficients.
DrivePairs ==
    {transmon_drive(a, p, f, <<0>>).coeffs :
        a \in {Const(2), Fun(1)}, p \in {Const(2), Fun(1)}, f \in {Const(2), Fun(1)}}
OtherCoefficient == [class |-> "function"]
CoefficientBlocks == DrivePairs \cup {<<OtherCoefficient>>}
RECURSIVE Concat(_, _)
Concat(blocks, n) == IF n = 0 THEN <<>> ELSE Concat(blocks, n - 1) \o blocks[n]
CoefficientLists ==
    {Concat(blocks, Len(blocks)) : blocks \in SeqFromTo(CoefficientBlocks, 0, MaxBlocks)}

\* the number of parameters a coefficient list takes: one for each callable of
\* a drive term, one for each other coefficient
ParamsNeeded(coeffs) ==
    LET callables == SumTo([i \in 1..Len(coeffs) |->
                              IF coeffs[i].class = "AmplitudeAndPhaseAndFreq"
                              THEN CountTrue(<<coeffs[i].amp_is_callable,
                                               coeffs[i].phase_is_callable,
                                               coeffs[i].freq_is_callable>>)
                              ELSE 2], Len(coeffs))
    IN callables \div 2
\* a params list of m distinct numbers
ParamsList(m) == [j \in 1..m |-> 10 * j]
\* calls with exactly the parameters needed, and with one parameter too few
ReorderArgs ==
    UNION {{[fn |-> "_reorder_AmpPhaseFreq", params |-> ParamsList(m), coeffs_parametrized |-> c] :
              m \in {n \in {ParamsNeeded(c) - 1, ParamsNeeded(c)} : n >= 0}} :
           c \in CoefficientLists}

\* ---------------------------------------------------------------- Attribute
\* A value that can be offered to a set: a string, or the list of names that
\* a Tensor has as its name (a list is not hashable).
Str(v) == [type |-> "str", value |-> v]
NameList(v) == [type |-> "list", value |-> v]

\* The objects handed to add and to `in`: strings, Operator instances,
\* classes and other objects.  operator: isinstance(obj, Operator) or
\* issubclass(obj, Operator); tensor: isinstance(obj, Tensor); name: the
\* string itself, obj.name of an instance, obj.__name__ of a class.
Object(kind, operator, tensor, name) ==
    [kind |-> kind, operator |-> operator, tensor |-> tensor, name |-> name]
Strings == {Object("str", FALSE, FALSE, Str(v)) : v \in {"RX", "PauliX", "Hadamard"}}
OperatorInstances ==
    {Object("instance", TRUE, FALSE, Str("RX")),
     Object("instance", TRUE, FALSE, Str("MyGate")),
     Object("instance", TRUE, TRUE, NameList("PauliX, PauliZ"))}
Classes ==
    {Object("class", TRUE, FALSE, Str("RX")),
     Object("class", TRUE, FALSE, Str("Tensor")),
     Object("class", FALSE, FALSE, Str("int"))}
OtherObjects == {Object("other", FALSE, FALSE, Str("5"))}
Objects == Strings \cup OperatorInstances \cup Classes \cup OtherObjects

AddMsg == "Only an Operator or string representing an Operator can be added to an attribute."
ContainsMsg == "Only an Operator or string representing an Operator can be checked for attribute inclusion."
TypeError(msg) == [kind |-> "raise", exc |-> "TypeError", msg |-> msg]
Result(v) == [kind |-> "return", value |-> v]

\* set.add(x) and set.__contains__(x): TypeError for an unhashable x
SetAdd(self, x) ==
    IF x.type = "list" THEN [members |-> self, out |-> TypeError("unhashable type: 'list'")]
    ELSE [members |-> self \cup {x}, out |-> Result("None")]
SetContains(self, x) ==
    IF x.type = "list" THEN TypeError("unhashable type: 'list'") ELSE Result(x \in self)

\* Attribute.add(obj): the members afterwards and what the call returns or raises
add(self, obj) ==
    IF obj.kind = "str" THEN SetAdd(self, obj.name)
    ELSE LET try == IF obj.kind = "instance" /\ obj.operator THEN SetAdd(self, obj.name)
                    ELSE IF obj.kind = "class" /\ obj.operator THEN SetAdd(self, obj.name)
                    ELSE [members |-> self, out |-> TypeError("")]
         IN IF try.out.kind = "raise"
            THEN [members |-> try.members, out |-> TypeError(AddMsg)]
            ELSE try

\* variant of __contains__ without the test for Tensor
__contains___NoHotfix(self, obj) ==
    IF obj.kind = "str" THEN SetContains(self, obj.name)
    ELSE LET try == IF obj.kind = "instance" /\ obj.operator THEN SetContains(self, obj.name)
                    ELSE IF obj.kind = "class" /\ obj.operator THEN SetContains(self, obj.name)
                    ELSE TypeError("")
         IN IF try.kind = "raise" THEN TypeError(ContainsMsg) ELSE try

\* Attribute.__contains__(obj)
__contains__(self, obj) ==
    IF obj.kind = "str" THEN SetContains(self, obj.name)
    ELSE LET try == IF obj.kind = "instance" /\ obj.tensor THEN Result(FALSE)
                    ELSE IF obj.kind = "instance" /\ obj.operator THEN SetContains(self, obj.name)
                    ELSE IF obj.kind = "class" /\ obj.operator THEN SetContains(self, obj.name)
                    ELSE TypeError("")
         IN IF try.kind = "raise" THEN TypeError(ContainsMsg) ELSE try

\* the members an Attribute is constructed with
InitialMembers == {{}, {Str("PauliX"), Str("PauliZ")}}

\* --------------------------------------------------------------- variables
VARIABLES
    pc,          \* position of the measure call
    heap,        \* tensor objects; heap[1] is the tensor the caller holds
    orig,        \* the tensor as the simulation produced it (history)
    mp,          \* argument measurementprocess of the call in progress
    fn,          \* what get_measurement_function returned
    stateRef,    \* the object the local name `state` is bound to
    gatesLeft,   \* rest of the iteration over diagonalizing_gates()
    calls,       \* calls made to the collaborators, in order
    outcome,     \* value returned or exception raised by measure
    dpc,         \* position of the pauli_decompose call
    dargs,       \* arguments of the pauli_decompose call
    dout,        \* value returned or exception raised by pauli_decompose
    dmatrix,     \* the array handed to pauli_decompose as matrix, as it is in memory
    spc,         \* position of the pauli_sentence call
    sop,         \* the operator handed to pauli_sentence
    scache,      \* sop._pauli_rep: 0 for None, else the sentence object sheap[scache]
    sheap,       \* the PauliSentence objects that exist, by identity
    sopreps,     \* the sentence object in the _pauli_rep of the first operand of sop: <<>> for None
    sout,        \* object returned or exception raised by pauli_sentence
    ncalls,      \* calls of pauli_sentence made on sop
    dispatched,  \* whether the call in progress went through _pauli_sentence
    hpc,         \* position of the call of a function of the other components
    hargs,       \* the arguments of that call
    hout,        \* what that call returned or raised
    members      \* the strings an Attribute holds

mvars == <<pc, heap, orig, mp, fn, stateRef, gatesLeft, calls, outcome>>
dvars == <<dpc, dargs, dout, dmatrix>>
svars == <<spc, sop, scache, sheap, sopreps, sout, ncalls, dispatched>>
hvars == <<hpc, hargs, hout, members>>
vars == <<mvars, dvars, svars, hvars>>

NoMP == [cls |-> "none", obs |-> "None", gates |-> <<>>, ham |-> <<>>]
NoOutcome == [kind |-> "none"]

MeasureIdle(t) ==
    /\ pc = "idle"
    /\ heap = <<t>>
    /\ orig = t
    /\ mp = NoMP
    /\ fn = "none"
    /\ stateRef = 1
    /\ gatesLeft = <<>>
    /\ calls = <<>>
    /\ outcome = NoOutcome

DecomposeIdle(args) ==
    /\ dpc = "call"
    /\ dargs = args
    /\ dout = NoOutcome
    /\ dmatrix = Array(args.matrix)

SentenceStart(op, cache, objects) ==
    /\ spc = "idle"
    /\ sop = op
    /\ scache = cache
    /\ sheap = objects
    /\ sout = NoOutcome
    /\ ncalls = 0
    /\ dispatched = FALSE

SentenceIdle(op, cache, objects) ==
    /\ spc = "idle"
    /\ sop = op
    /\ scache = cache
    /\ sheap = objects
    /\ sopreps = <<>>
    /\ sout = NoOutcome
    /\ ncalls = 0
    /\ dispatched = FALSE

NoCall == [fn |-> "none"]
HarnessIdle(args, strings) ==
    /\ hpc = "call"
    /\ hargs = args
    /\ hout = NoOutcome
    /\ members = strings

NoArgs ==
    [matrix |-> [shape |-> <<1, 1>>, data |-> [q \in Positions(1, 1) |-> CZero]],
     hide_identity |-> FALSE, wire_order |-> NoWireOrder, pauli |-> FALSE, padding |-> FALSE]

MeasureInit ==
    /\ \E k \in 0..MaxWires : \E t \in Tensors(k) : MeasureIdle(t)
    /\ DecomposeIdle(NoArgs)
    /\ SentenceIdle(X0, 0, <<>>)
    /\ HarnessIdle(NoCall, {})

\* measure(m, state): the dispatch and the call of the strategy
Dispatch(m) ==
    LET f == get_measurement_function(m)
    IN /\ mp' = m
       /\ heap' = <<heap[1]>>
       /\ stateRef' = 1
       /\ calls' = <<>>
       /\ IF f \in {"NotImplementedError", "AttributeError"}
          THEN /\ pc' = "raised"
               /\ fn' = "none"
               /\ outcome' = [kind |-> "raise", exc |-> f, args |-> ExceptionArgs(f)]
               /\ gatesLeft' = <<>>
          ELSE /\ pc' = f
               /\ fn' = f
               /\ outcome' = NoOutcome
               /\ gatesLeft' = IF f = "state_diagonalizing_gates" THEN m.gates ELSE <<>>

\* a call measure(measurementprocess, state)
MeasureCall ==
    /\ pc = "idle"
    /\ \E m \in MeasurementProcesses(Rank(heap[1])) : Dispatch(m)
    /\ UNCHANGED <<orig, dvars, svars, hvars>>

\* variant of ApplyGate that takes the gates from the end of the sequence
ApplyGate_Reversed ==
    /\ pc = "state_diagonalizing_gates"
    /\ gatesLeft # <<>>
    /\ LET op == gatesLeft[Len(gatesLeft)]
           new == apply_operation(op, heap[stateRef])
           b == BindNewState(heap, stateRef, new)
       IN /\ heap' = b.heap
          /\ stateRef' = b.ref
          /\ calls' = Append(calls, [fn |-> "apply_operation", op |-> op, state |-> heap[stateRef]])
    /\ gatesLeft' = SubSeq(gatesLeft, 1, Len(gatesLeft) - 1)
    /\ UNCHANGED <<pc, orig, mp, fn, outcome, dvars, svars, hvars>>

\* one iteration of the loop over measurementprocess.diagonalizing_gates()
ApplyGate ==
    /\ pc = "state_diagonalizing_gates"
    /\ gatesLeft # <<>>
    /\ LET op == Head(gatesLeft)
           new == apply_operation(op, heap[stateRef])
           b == BindNewState(heap, stateRef, new)
       IN /\ heap' = b.heap
          /\ stateRef' = b.ref
          /\ calls' = Append(calls, [fn |-> "apply_operation", op |-> op, state |-> heap[stateRef]])
    /\ gatesLeft' = Tail(gatesLeft)
    /\ UNCHANGED <<pc, orig, mp, fn, outcome, dvars, svars, hvars>>

\* variant of ProcessState that hands the tensor of the caller to process_state
ProcessState_CallerState ==
    /\ pc = "state_diagonalizing_gates"
    /\ gatesLeft = <<>>
    /\ LET state == heap[1]
           total_indices == Rank(state)
           wires == WireRange(total_indices)
           flat == Flatten(state)
       IN /\ calls' = Append(calls, [fn |-> "process_state", flat |-> flat, wires |-> wires])
          /\ outcome' = [kind |-> "return", value |-> process_state(mp, flat, wires)]
    /\ pc' = "done"
    /\ UNCHANGED <<heap, orig, mp, fn, stateRef, gatesLeft, dvars, svars, hvars>>

\* after the loop: flatten, build the wires, call process_state and return
ProcessState ==
    /\ pc = "state_diagonalizing_gates"
    /\ gatesLeft = <<>>
    /\ LET state == heap[stateRef]
           total_indices == Rank(state)
           wires == WireRange(total_indices)
           flat == Flatten(state)
       IN /\ calls' = Append(calls, [fn |-> "process_state", flat |-> flat, wires |-> wires])
          /\ outcome' = [kind |-> "return", value |-> process_state(mp, flat, wires)]
    /\ pc' = "done"
    /\ UNCHANGED <<heap, orig, mp, fn, stateRef, gatesLeft, dvars, svars, hvars>>

\* the body of state_hamiltonian_expval
HamiltonianExpval ==
    /\ pc = "state_hamiltonian_expval"
    /\ calls' = Append(calls, [fn |-> "sparse_matrix", wire_order |-> WireRange(Rank(heap[stateRef]))])
    /\ outcome' = [kind |-> "return", value |-> state_hamiltonian_expval(mp, heap[stateRef])]
    /\ pc' = "done"
    /\ UNCHANGED <<heap, orig, mp, fn, stateRef, gatesLeft, dvars, svars, hvars>>

\* control is back at the caller, who still holds heap[1]
MeasureReturn ==
    /\ pc \in {"done", "raised"}
    /\ pc' = "idle"
    /\ heap' = <<heap[1]>>
    /\ stateRef' = 1
    /\ mp' = NoMP
    /\ fn' = "none"
    /\ gatesLeft' = <<>>
    /\ calls' = <<>>
    /\ outcome' = NoOutcome
    /\ UNCHANGED <<orig, dvars, svars, hvars>>

MeasureNext == MeasureCall \/ ApplyGate \/ ProcessState \/ HamiltonianExpval \/ MeasureReturn

SpecMeasure == MeasureInit /\ [][MeasureNext]_vars

\* ------------------------------ expectation values of Pauli observables
\* a rotation angle theta given by cos(theta/2) = c/h and sin(theta/2) = s/h
HalfAngles ==
    {[c |-> 1, s |-> 0, h |-> 1], [c |-> 0, s |-> 1, h |-> 1],
     [c |-> 3, s |-> 4, h |-> 5], [c |-> 4, s |-> 3, h |-> 5],
     [c |-> 3, s |-> -4, h |-> 5], [c |-> -3, s |-> 4, h |-> 5],
     [c |-> 24, s |-> 7, h |-> 25], [c |-> 7, s |-> 24, h |-> 25],
     [c |-> 12, s |-> 5, h |-> 13], [c |-> 5, s |-> -12, h |-> 13]}

\* h * RX(theta)|0...0>, the rotation on wire 0: cos(theta/2)|0> - i sin(theta/2)|1>
RXState(th, k) ==
    [shape |-> [a \in 1..k |-> 2],
     data |-> [b \in BitTuples(k) |->
                 IF \E a \in 2..k : b[a] = 1 THEN CZero
                 ELSE IF b[1] = 0 THEN <<th.c, 0>> ELSE <<0, 0 - th.s>>]]

ExpvalInit ==
    /\ \E k \in 1..MaxWires :
          \/ \E th \in HalfAngles : MeasureIdle(RXState(th, k))
          \/ \E t \in Tensors(k) : MeasureIdle(t)
    /\ DecomposeIdle(NoArgs)
    /\ SentenceIdle(X0, 0, <<>>)
    /\ HarnessIdle(NoCall, {})

\* a call measure(qml.expval(obs), state) with a Pauli observable
ExpvalCall ==
    /\ pc = "idle"
    /\ \E m \in PauliExpectations(Rank(heap[1])) : Dispatch(m)
    /\ UNCHANGED <<orig, dvars, svars, hvars>>

ExpvalNext == ExpvalCall \/ ApplyGate \/ ProcessState \/ MeasureReturn

SpecExpval == ExpvalInit /\ [][ExpvalNext]_vars

\* ------------------------------------------------- calls of pauli_decompose
DecomposeInit ==
    /\ MeasureIdle([shape |-> <<>>, data |-> [b \in BitTuples(0) |-> COne]])
    /\ \E args \in DecomposeArgs : DecomposeIdle(args)
    /\ SentenceIdle(X0, 0, <<>>)
    /\ HarnessIdle(NoCall, {})

\* the call pauli_decompose(matrix, hide_identity, wire_order, pauli, padding)
PauliDecompose ==
    /\ dpc = "call"
    /\ dout' = pauli_decompose(dargs.matrix, dargs.hide_identity, dargs.wire_order,
                                dargs.pauli, dargs.padding)
    /\ dmatrix' = CallerArray(dargs.matrix, dargs.wire_order, dargs.padding)
    /\ dpc' = "done"
    /\ UNCHANGED <<dargs, mvars, svars, hvars>>

DecomposeNext == PauliDecompose

SpecDecompose == DecomposeInit /\ [][DecomposeNext]_vars

\* ------------------------------------------------- calls of pauli_sentence
\* variant of pauli_sentence that returns a copy of the cached sentence
pauli_sentence_Copying(op, cache, objects) ==
    IF cache # 0
    THEN [out |-> [kind |-> "return", ref |-> Len(objects) + 1],
          objects |-> Append(objects, objects[cache]), cache |-> cache, dispatched |-> FALSE]
    ELSE LET r == _pauli_sentence(op)
         IN IF r.kind = "raise"
            THEN [out |-> r, objects |-> objects, cache |-> cache, dispatched |-> TRUE]
            ELSE [out |-> [kind |-> "return", ref |-> Len(objects) + 1],
                  objects |-> Append(objects, r.value), cache |-> cache, dispatched |-> TRUE]

\* variant of pauli_sentence that stores the computed sentence in op._pauli_rep
pauli_sentence_Storing(op, cache, objects) ==
    IF cache # 0
    THEN [out |-> [kind |-> "return", ref |-> cache],
          objects |-> objects, cache |-> cache, dispatched |-> FALSE]
    ELSE LET r == _pauli_sentence(op)
         IN IF r.kind = "raise"
            THEN [out |-> r, objects |-> objects, cache |-> cache, dispatched |-> TRUE]
            ELSE [out |-> [kind |-> "return", ref |-> Len(objects) + 1],
                  objects |-> Append(objects, r.value), cache |-> Len(objects) + 1,
                  dispatched |-> TRUE]

\* pauli_sentence(op): the cached object if there is one, else the object the
\* dispatch builds; op._pauli_rep is read and never assigned
pauli_sentence(op, cache, objects) ==
    IF cache # 0
    THEN [out |-> [kind |-> "return", ref |-> cache],
          objects |-> objects, cache |-> cache, dispatched |-> FALSE]
    ELSE LET r == _pauli_sentence(op)
         IN IF r.kind = "raise"
            THEN [out |-> r, objects |-> objects, cache |-> cache, dispatched |-> TRUE]
            ELSE [out |-> [kind |-> "return", ref |-> Len(objects) + 1],
                  objects |-> Append(objects, r.value), cache |-> cache, dispatched |-> TRUE]

SentenceInit ==
    /\ MeasureIdle([shape |-> <<>>, data |-> [b \in BitTuples(0) |-> COne]])
    /\ DecomposeIdle(NoArgs)
    /\ \E op \in Operators :
          /\ \/ SentenceStart(op, 0, <<>>)
             \/ \E ps \in CachedSentences : SentenceStart(op, 1, <<ps>>)
          /\ \/ sopreps = <<>>
             \/ HasOperands(op) /\ \E ps \in CachedSentences : sopreps = <<ps>>
    /\ HarnessIdle(NoCall, {})

\* a call pauli_sentence(sop)
PauliSentenceCall ==
    /\ spc = "idle"
    /\ ncalls < MaxCalls
    /\ LET r == pauli_sentence(sop, scache, sheap)
       IN /\ sout' = r.out
          /\ sheap' = r.objects
          /\ scache' = r.cache
          /\ dispatched' = r.dispatched
          /\ sopreps' = IF r.dispatched THEN OperandRepsAfter(sop, sopreps) ELSE sopreps
    /\ spc' = "done"
    /\ ncalls' = ncalls + 1
    /\ UNCHANGED <<sop, mvars, dvars, hvars>>

\* control is back at the caller, who keeps the objects
SentenceReturn ==
    /\ spc = "done"
    /\ spc' = "idle"
    /\ sout' = NoOutcome
    /\ dispatched' = FALSE
    /\ UNCHANGED <<sop, scache, sheap, sopreps, ncalls, mvars, dvars, hvars>>

SentenceNext == PauliSentenceCall \/ SentenceReturn

SpecSentence == SentenceInit /\ [][SentenceNext]_vars

\* the other components idle
OthersIdle ==
    /\ MeasureIdle([shape |-> <<>>, data |-> [b \in BitTuples(0) |-> COne]])
    /\ DecomposeIdle(NoArgs)
    /\ SentenceIdle(X0, 0, <<>>)

\* ------------------------------------------- calls of transmon_interaction
TransmonInit ==
    /\ OthersIdle
    /\ \E args \in TransmonArgs : HarnessIdle(args, {})

\* the call transmon_interaction(omega, connections, g, wires, anharmonicity, d)
TransmonInteraction ==
    /\ hpc = "call"
    /\ hout' = transmon_interaction(hargs.omega, hargs.connections, hargs.g, hargs.wires,
                                     hargs.anharmonicity, hargs.d)
    /\ hpc' = "done"
    /\ UNCHANGED <<hargs, members, mvars, dvars, svars>>

TransmonNext == TransmonInteraction

SpecTransmon == TransmonInit /\ [][TransmonNext]_vars

\* ------------------------------------------------- calls of transmon_drive
DriveInit ==
    /\ OthersIdle
    /\ \E args \in DriveArgs : HarnessIdle(args, {})

\* the call transmon_drive(amplitude, phase, freq, wires)
TransmonDrive ==
    /\ hpc = "call"
    /\ hargs.fn = "transmon_drive"
    /\ hout' = [kind |-> "built",
                 H |-> transmon_drive(hargs.amplitude, hargs.phase, hargs.freq, hargs.wires)]
    /\ hpc' = "built"
    /\ UNCHANGED <<hargs, members, mvars, dvars, svars>>

\* both coefficients of the Hamiltonian evaluated at (params, t)
EvaluateCoefficients ==
    /\ hpc = "built"
    /\ hout' = [kind |-> "return", H |-> hout.H,
                 value |-> [k \in 1..Len(hout.H.coeffs) |->
                              CallCoefficient(hout.H.coeffs[k], hargs.params, hargs.t)]]
    /\ hpc' = "done"
    /\ UNCHANGED <<hargs, members, mvars, dvars, svars>>

DriveNext == TransmonDrive \/ EvaluateCoefficients

SpecDrive == DriveInit /\ [][DriveNext]_vars

\* ------------------------------------------ calls of _reorder_AmpPhaseFreq
ReorderInit ==
    /\ OthersIdle
    /\ \E args \in ReorderArgs : HarnessIdle(args, {})

\* the call _reorder_AmpPhaseFreq(params, coeffs_parametrized)
ReorderCall ==
    /\ hpc = "call"
    /\ hout' = _reorder_AmpPhaseFreq(hargs.params, hargs.coeffs_parametrized)
    /\ hpc' = "done"
    /\ UNCHANGED <<hargs, members, mvars, dvars, svars>>

ReorderNext == ReorderCall

SpecReorder == ReorderInit /\ [][ReorderNext]_vars

\* ----------------------------------------------------- calls on an Attribute
AttributeInit ==
    /\ OthersIdle
    /\ \E strings \in InitialMembers : HarnessIdle(NoCall, strings)

\* attribute.add(obj)
AttributeAdd ==
    /\ \E obj \in Objects :
          LET r == add(members, obj)
          IN /\ hargs' = [fn |-> "add", obj |-> obj]
             /\ members' = r.members
             /\ hout' = r.out
    /\ UNCHANGED <<hpc, mvars, dvars, svars>>

\* obj in attribute
AttributeContains ==
    /\ \E obj \in Objects :
          /\ hargs' = [fn |-> "contains", obj |-> obj]
          /\ hout' = __contains__(members, obj)
    /\ UNCHANGED <<hpc, members, mvars, dvars, svars>>

AttributeNext == AttributeAdd \/ AttributeContains

SpecAttribute == AttributeInit /\ [][AttributeNext]_vars

\* ------------------------------------------- products of Pauli words
\* the Pauli words on the wires 0..MaxWires, identities left out
PauliWords == {PauliWord(m) : m \in [0..MaxWires -> Letters]}

\* the product of three words, grouped either way, with the accumulated phase
Product3(a, b, c) ==
    LET ab == WordMul(a, b)
        ab_c == WordMul(ab.word, c)
        bc == WordMul(b, c)
        a_bc == WordMul(a, bc.word)
    IN [ab |-> ab,
        left |-> [word |-> ab_c.word, phase |-> CMul(ab.phase, ab_c.phase)],
        right |-> [word |-> a_bc.word, phase |-> CMul(bc.phase, a_bc.phase)]]

WordMulInit ==
    /\ OthersIdle
    /\ \E a \in PauliWords, b \in PauliWords, c \in PauliWords :
          HarnessIdle([fn |-> "mul", a |-> a, b |-> b, c |-> c], {})

\* (a * b) * c and a * (b * c)
MultiplyWords ==
    /\ hpc = "call"
    /\ hout' = [kind |-> "return", value |-> Product3(hargs.a, hargs.b, hargs.c)]
    /\ hpc' = "done"
    /\ UNCHANGED <<hargs, members, mvars, dvars, svars>>

WordMulNext == MultiplyWords

SpecWordMul == WordMulInit /\ [][WordMulNext]_vars

\* ------------------------------------------------------------------ claims
HamiltonianNames == {"Hamiltonian", "SparseHamiltonian"}
InCall == pc # "idle"

\* C1: for every StateMeasurement get_measurement_function raises nothing and
\* returns state_hamiltonian_expval exactly when the measurement is an
\* ExpectationMP whose observable is named Hamiltonian or SparseHamiltonian,
\* and state_diagonalizing_gates in every other case.
C1_DispatchRule ==
    (InCall /\ mp.cls \in StateMeasurementClasses) =>
        /\ pc # "raised"
        /\ outcome.kind # "raise"
        /\ fn \in {"state_hamiltonian_expval", "state_diagonalizing_gates"}
        /\ (fn = "state_hamiltonian_expval") <=>
               (mp.cls = "ExpectationMP" /\ mp.obs \in HamiltonianNames)

\* the dispatch rule for the state measurements that carry an observable or
\* are no expectation value
C1_DispatchRuleWithObservable ==
    (InCall /\ mp.cls \in StateMeasurementClasses
       /\ ~(mp.cls = "ExpectationMP" /\ mp.obs = "None")) =>
        /\ pc # "raised"
        /\ outcome.kind # "raise"
        /\ fn \in {"state_hamiltonian_expval", "state_diagonalizing_gates"}
        /\ (fn = "state_hamiltonian_expval") <=>
               (mp.cls = "ExpectationMP" /\ mp.obs \in HamiltonianNames)

C1_Witness ==
    /\ pc = "done"
    /\ mp.cls = "VarianceMP"
    /\ mp.obs = "Hamiltonian"
    /\ fn = "state_diagonalizing_gates"

\* C2: a measurement process that is not a StateMeasurement makes measure raise
\* NotImplementedError: no strategy is selected, no collaborator is called, no
\* gate is applied and no tensor is produced.
C2_NotImplemented ==
    (InCall /\ mp.cls \notin StateMeasurementClasses) =>
        /\ pc = "raised"
        /\ outcome = [kind |-> "raise", exc |-> "NotImplementedError", args |-> <<>>]
        /\ fn = "none"
        /\ calls = <<>>
        /\ heap = <<orig>>

C2_Witness ==
    /\ pc = "raised"
    /\ mp.cls = "SampleMP"
    /\ outcome.kind = "raise"

\* the tensor the k-th apply_operation call of the log returned
ResultOfCall(k) == apply_operation(calls[k].op, calls[k].state)

\* C3: the diagonalizing gates are applied one after another in the returned
\* order, the first to the input state and each next one to the state produced
\* by the previous application; process_state is called once, after the last
\* gate, with the flattened final state and the wires 0..k-1, and its value
\* is the result of measure.
C3_GatesInOrderThenProcessState ==
    (fn = "state_diagonalizing_gates") =>
        LET n == Len(mp.gates) - Len(gatesLeft)
            final == IF n = 0 THEN orig ELSE ResultOfCall(n)
            flat == [i \in 1..Pow2(Len(orig.shape)) |->
                       final.data[IndexBits(i - 1, Len(orig.shape))]]
            wires == [i \in 1..Len(orig.shape) |-> i - 1]
        IN /\ n >= 0
           /\ Len(calls) >= n
           /\ \A i \in 1..n :
                /\ calls[i].fn = "apply_operation"
                /\ calls[i].op = mp.gates[i]
                /\ calls[i].state = (IF i = 1 THEN orig ELSE ResultOfCall(i - 1))
           /\ (pc = "state_diagonalizing_gates") => (Len(calls) = n /\ outcome = NoOutcome)
           /\ (pc = "done") =>
                /\ n = Len(mp.gates)
                /\ Len(calls) = n + 1
                /\ calls[n + 1] = [fn |-> "process_state", flat |-> flat, wires |-> wires]
                /\ outcome = [kind |-> "return", value |-> process_state(mp, flat, wires)]

C3_Witness ==
    /\ pc = "done"
    /\ fn = "state_diagonalizing_gates"
    /\ Len(mp.gates) = 2
    /\ mp.gates[1] # mp.gates[2]
    /\ mp.gates[1].wire = mp.gates[2].wire
    /\ apply_operation(mp.gates[2], apply_operation(mp.gates[1], orig))
         # apply_operation(mp.gates[1], apply_operation(mp.gates[2], orig))

C3_EmptyWitness ==
    /\ pc = "done"
    /\ fn = "state_diagonalizing_gates"
    /\ mp.gates = <<>>
    /\ Len(orig.shape) = 1

\* <psi|H|psi> as one sum over all pairs (i, j) of conj(psi_i) * H_ij * psi_j
RECURSIVE PairSum(_, _, _, _)
PairSum(H, psi, N, p) ==
    IF p = 0 THEN CZero
    ELSE LET i == (p - 1) \div N
             j == (p - 1) % N
         IN CAdd(PairSum(H, psi, N, p - 1),
                 CMul(CConj(psi[i + 1]), CMul(H[i][j], psi[j + 1])))

Contraction ==
    LET k == Len(orig.shape)
        N == Pow2(k)
    IN PairSum(sparse_matrix(mp.ham, [i \in 1..k |-> i - 1]), Flatten(orig), N, N * N)

\* eigenvalue of a word of letters I and Z on the basis state with bits b
RECURSIVE ZEigenvalue(_, _, _)
ZEigenvalue(word, b, k) ==
    IF k = 0 THEN 1
    ELSE (IF word[k - 1] = "Z" /\ b[k] = 1 THEN -1 ELSE 1) * ZEigenvalue(word, b, k - 1)

RECURSIVE WeightedEigenvalues(_, _, _)
WeightedEigenvalues(ham, b, n) ==
    IF n = 0 THEN 0
    ELSE WeightedEigenvalues(ham, b, n - 1)
         + ham[n].coeff[1] * ZEigenvalue(ham[n].word, b, Len(b))

IsDiagonalRealHamiltonian(ham) ==
    \A i \in 1..Len(ham) :
        /\ ham[i].coeff[2] = 0
        /\ \A q \in DOMAIN ham[i].word : ham[i].word[q] \in {"I", "Z"}

IsBasisState(t, b) ==
    /\ t.data[b] \in {COne, CI}
    /\ \A c \in DOMAIN t.data : c # b => t.data[c] = CZero

\* C4: state_hamiltonian_expval returns the real part of the contraction
\* sum_ij conj(psi_i) H_ij psi_j; the result is a real scalar whatever the
\* imaginary part of the contraction; on a computational basis state and a
\* Hamiltonian of diagonal terms it is the sum of coefficient times eigenvalue.
C4_ExpvalIsRealPartOfContraction ==
    (pc = "done" /\ fn = "state_hamiltonian_expval") =>
        /\ outcome.kind = "return"
        /\ outcome.value \in Int
        /\ outcome.value = Contraction[1]
        /\ calls = <<[fn |-> "sparse_matrix", wire_order |-> [i \in 1..Len(orig.shape) |-> i - 1]]>>
        /\ \A b \in DOMAIN orig.data :
              (IsBasisState(orig, b) /\ IsDiagonalRealHamiltonian(mp.ham)) =>
                  outcome.value = WeightedEigenvalues(mp.ham, b, Len(mp.ham))

\* an expectation whose contraction has a real and an imaginary part
C4_Witness ==
    /\ pc = "done"
    /\ fn = "state_hamiltonian_expval"
    /\ Contraction[2] # 0
    /\ outcome.value # 0
    /\ \E b \in DOMAIN orig.data : orig.data[b] = CI

\* two diagonal terms with real coefficients on a basis state
C4_BasisWitness ==
    /\ pc = "done"
    /\ fn = "state_hamiltonian_expval"
    /\ Len(mp.ham) = 2
    /\ IsDiagonalRealHamiltonian(mp.ham)
    /\ \E b \in DOMAIN orig.data : IsBasisState(orig, b) /\ b # [a \in DOMAIN b |-> 0]
    /\ outcome.value = -4

\* what measure returns for a measurement process and a state, in one step
RECURSIVE ApplyAll(_, _)
ApplyAll(gates, t) ==
    IF gates = <<>> THEN t ELSE ApplyAll(Tail(gates), apply_operation(Head(gates), t))

measure(m, t) ==
    LET f == get_measurement_function(m)
    IN CASE f = "state_hamiltonian_expval" ->
              [kind |-> "return", value |-> state_hamiltonian_expval(m, t)]
         [] f = "state_diagonalizing_gates" ->
              [kind |-> "return",
               value |-> process_state(m, Flatten(ApplyAll(m.gates, t)), WireRange(Rank(t)))]
         [] OTHER -> [kind |-> "raise", exc |-> f, args |-> ExceptionArgs(f)]

\* C5: measure never modifies the tensor it is given: through every call, by
\* either strategy, the caller's tensor keeps the entries it had, and what a
\* call returns is determined by the measurement process and that tensor alone.
C5_StateNotModified ==
    /\ heap[1] = orig
    /\ (pc \in {"done", "raised"}) => outcome = measure(mp, orig)

\* a gate that changes the state has been applied and measure has returned
C5_Witness ==
    /\ pc = "done"
    /\ fn = "state_diagonalizing_gates"
    /\ Len(heap) = 3
    /\ heap[2] # orig
    /\ heap[3] # orig

\* ------------------------------------------------ claims on pauli_decompose
Decomposed == dpc = "done"
Returned == dpc = "done" /\ dout.kind = "return"

IsPowerOfTwo(x) == \E q \in 0..x : Pow2(q) = x
\* the least power of two that is at least x
NextPowerOfTwo(x) == CHOOSE s \in 1..(2 * x) : IsPowerOfTwo(s) /\ s >= x /\ s < 2 * x
IsSquarePowerOfTwo(shape) == shape[1] = shape[2] /\ IsPowerOfTwo(shape[1])

\* the matrix extended with zeros below and to the right to the next power of two
ZeroPadded(matrix) ==
    LET side == NextPowerOfTwo(Max(matrix.shape[1], matrix.shape[2]))
    IN [shape |-> <<side, side>>,
        data |-> [q \in Positions(side, side) |->
                    IF q \in DOMAIN matrix.data THEN matrix.data[q] ELSE CZero]]

\* the matrix that is decomposed
Decomposable ==
    IF dargs.padding /\ ~IsSquarePowerOfTwo(dargs.matrix.shape)
    THEN ZeroPadded(dargs.matrix) ELSE dargs.matrix
Side == IF dargs.padding
        THEN NextPowerOfTwo(Max(dargs.matrix.shape[1], dargs.matrix.shape[2]))
        ELSE dargs.matrix.shape[1]
Qubits == CHOOSE n \in 0..Side : Pow2(n) = Side
Order == IF dargs.wire_order.given THEN dargs.wire_order.order ELSE [i \in 1..Qubits |-> i - 1]

\* the word of a factor list: the wires with a letter X, Y or Z
FactorsWord(factors) ==
    [w \in {factors[k].w : k \in {j \in 1..Len(factors) : factors[j].o # "I"}} |->
       factors[CHOOSE k \in 1..Len(factors) : factors[k].w = w].o]

\* the terms of the result as [coeff, word], word mapping wires to letters X, Y, Z
ResultTerms ==
    IF dout.type = "Hamiltonian"
    THEN [i \in 1..Len(dout.coeffs) |->
            [coeff |-> dout.coeffs[i], word |-> FactorsWord(dout.ops[i])]]
    ELSE LET enum == SetToSeq(DOMAIN dout.sentence)
         IN [i \in 1..Len(enum) |-> [coeff |-> dout.sentence[enum[i]], word |-> enum[i]]]

\* entry (r, c) of the Kronecker product of the letters pauli_rep, the first
\* letter on the most significant bit
LabelEntry(pauli_rep, n, r, c) ==
    CProdTo([p \in 1..n |->
               PauliEntry(pauli_rep[p], AxisBit(r, p - 1, n), AxisBit(c, p - 1, n))], n)

\* the letters a word puts on the wires of order, identity on a wire it does not list
WordRep(word, order) ==
    [p \in 1..Len(order) |-> IF order[p] \in DOMAIN word THEN word[order[p]] ELSE "I"]

\* side times the sum over the terms of coefficient times Kronecker product
ReconstructedTimesSide(terms, order, side) ==
    LET n == Len(order)
        reps == [i \in 1..Len(terms) |-> WordRep(terms[i].word, order)]
        nums == [i \in 1..Len(terms) |->
                   <<terms[i].coeff.re * (side \div terms[i].coeff.den),
                     terms[i].coeff.im * (side \div terms[i].coeff.den)>>]
    IN [q \in Positions(side, side) |->
          CSumTo([i \in 1..Len(terms) |->
                    CMul(nums[i], LabelEntry(reps[i], n, q[1], q[2]))], Len(terms))]

Reconstructs ==
    LET D == Decomposable
        R == ReconstructedTimesSide(ResultTerms, Order, Side)
    IN \A q \in Positions(Side, Side) : R[q] = CMul(<<Side, 0>>, D.data[q])

\* C6: round trip: the sum over the returned terms of coefficient times the
\* Kronecker product of the term's Pauli matrices equals the decomposed matrix.
C6_RoundTrip == Returned => Reconstructs

\* the round trip from one qubit on
C6_RoundTripFromOneQubit == (Returned /\ Qubits >= 1) => Reconstructs

C6_FromOneQubitWitness ==
    /\ Returned
    /\ Qubits = 2
    /\ dout.type = "Hamiltonian"
    /\ Len(dout.coeffs) = 8
    /\ dargs.wire_order.given
    /\ dargs.hide_identity

\* C7: without padding a non-square matrix raises ValueError "should be
\* square" and a square matrix whose side is no power of two raises ValueError
\* "power of 2", whatever wire_order is; nothing is returned.
ShapeErrors ==
    LET shape == dargs.matrix.shape
    IN /\ (shape[1] # shape[2]) =>
             dout = [kind |-> "raise", exc |-> "ValueError", msg |-> "should be square"]
       /\ (shape[1] = shape[2] /\ ~IsPowerOfTwo(shape[1])) =>
             dout = [kind |-> "raise", exc |-> "ValueError", msg |-> "power of 2"]

C7_ShapeErrors == (Decomposed /\ ~dargs.padding) => ShapeErrors

\* the same for the matrices that are not of shape 0 x 0
C7_ShapeErrorsOfNonEmpty ==
    (Decomposed /\ ~dargs.padding /\ dargs.matrix.shape # <<0, 0>>) => ShapeErrors

\* a 3 x 3 matrix and a wire_order of the wrong length: the power of two is reported
C7_Witness ==
    /\ Decomposed
    /\ ~dargs.padding
    /\ dargs.matrix.shape = <<3, 3>>
    /\ dargs.wire_order.given
    /\ Len(dargs.wire_order.order) = 1
    /\ dout.kind = "raise"
    /\ dout.msg = "power of 2"

\* a non-square matrix whose number of rows is no power of two
C7_NonSquareWitness ==
    /\ Decomposed
    /\ ~dargs.padding
    /\ dargs.matrix.shape = <<3, 2>>
    /\ dout.kind = "raise"
    /\ dout.msg = "should be square"

\* trace(P * M) / side for every Pauli product P of n letters: the sum of
\* P[r][c] * M[c][r] over the non-zero entries M[c][r]
TraceCoefficients(D, n) ==
    LET side == D.shape[1]
        nonzero == SetToSeq({q \in DOMAIN D.data : D.data[q] # CZero})
    IN [pauli_rep \in [1..n -> Letters] |->
          LET tr == CSumTo([k \in 1..Len(nonzero) |->
                              CMul(LabelEntry(pauli_rep, n, nonzero[k][2], nonzero[k][1]),
                                   D.data[nonzero[k]])],
                           Len(nonzero))
          IN Reduced(tr[1], tr[2], side)]

\* the word of a label: its k-th letter on wire order[k], identities left out
LabelWord(pauli_rep, order) ==
    [w \in {order[p] : p \in {k \in 1..Len(order) : pauli_rep[k] # "I"}} |->
       pauli_rep[CHOOSE p \in 1..Len(order) : order[p] = w]]
\* the factor list of a label
LabelFactors(pauli_rep, order, hide_identity) ==
    LET all == [p \in 1..Len(order) |-> [o |-> pauli_rep[p], w |-> order[p]]]
    IN IF hide_identity /\ (\E p \in 1..Len(order) : pauli_rep[p] # "I")
       THEN SelectSeq(all, LAMBDA f : f.o # "I")
       ELSE all

\* the matrix, padded when padding is asked for, is square with a side 2^n
PassesDimensionChecks ==
    IF dargs.padding
    THEN Max(dargs.matrix.shape[1], dargs.matrix.shape[2]) >= 1
    ELSE IsSquarePowerOfTwo(dargs.matrix.shape)

\* C8: when the dimension checks pass, an explicit wire_order whose length is
\* not the number of qubits raises ValueError; otherwise every term carries the
\* k-th letter of its label on wire_order[k], or on wire k-1 without wire_order.
C8_WireOrder ==
    (Decomposed /\ PassesDimensionChecks) =>
        IF dargs.wire_order.given /\ Len(dargs.wire_order.order) # Qubits
        THEN dout = [kind |-> "raise", exc |-> "ValueError", msg |-> "number of wires"]
        ELSE /\ dout.kind = "return"
             /\ LET terms == ResultTerms
                    order == Order
                    coeff == TraceCoefficients(Decomposable, Qubits)
                IN \A i \in 1..Len(terms) :
                     \E pauli_rep \in DOMAIN coeff :
                        /\ coeff[pauli_rep] = terms[i].coeff
                        /\ terms[i].word = LabelWord(pauli_rep, order)
                        /\ dout.type = "Hamiltonian" =>
                             dout.ops[i] = LabelFactors(pauli_rep, order, dargs.hide_identity)

\* two qubits on the wires 1, 0: a term with two different letters
C8_Witness ==
    /\ Returned
    /\ Qubits = 2
    /\ dargs.wire_order = [given |-> TRUE, order |-> <<1, 0>>]
    /\ dout.type = "Hamiltonian"
    /\ \E i \in 1..Len(dout.ops) : Len(dout.ops[i]) = 2 /\ dout.ops[i][1].o # dout.ops[i][2].o

C8_ErrorWitness ==
    /\ Decomposed
    /\ dargs.padding
    /\ dargs.matrix.shape = <<3, 2>>
    /\ dargs.wire_order.given
    /\ Len(dargs.wire_order.order) = 1
    /\ dout.kind = "raise"

OneTermPerNonZeroLabel ==
    LET terms == ResultTerms
        order == Order
        coeff == TraceCoefficients(Decomposable, Qubits)
        words == [i \in 1..Len(terms) |-> terms[i].word]
    IN /\ \A pauli_rep \in DOMAIN coeff :
            LET with == {i \in 1..Len(terms) : words[i] = LabelWord(pauli_rep, order)}
            IN IF IsCloseToZero(coeff[pauli_rep])
               THEN with = {}
               ELSE /\ Cardinality(with) = 1
                    /\ \A i \in with : terms[i].coeff = coeff[pauli_rep]
       /\ Len(terms) = Cardinality({pauli_rep \in DOMAIN coeff : ~IsCloseToZero(coeff[pauli_rep])})

\* C10: the result has exactly one term for each Pauli label whose coefficient
\* is not zero, carrying that coefficient, and no term for a label whose
\* coefficient is zero, for every number of qubits n >= 0.
C10_OneTermPerNonZeroLabel == Returned => OneTermPerNonZeroLabel

\* the same from one qubit on
C10_OneTermPerNonZeroLabelFromOneQubit == (Returned /\ Qubits >= 1) => OneTermPerNonZeroLabel

\* the call with one argument replaced
WithHideIdentity(h) ==
    pauli_decompose(dargs.matrix, h, dargs.wire_order, dargs.pauli, dargs.padding)
WithPauli(b) ==
    pauli_decompose(dargs.matrix, dargs.hide_identity, dargs.wire_order, b, dargs.padding)

\* the terms of a returned decomposition as [coeff, word]
TermsOf(out) ==
    IF out.type = "Hamiltonian"
    THEN [i \in 1..Len(out.coeffs) |->
            [coeff |-> out.coeffs[i], word |-> FactorsWord(out.ops[i])]]
    ELSE LET enum == SetToSeq(DOMAIN out.sentence)
         IN [i \in 1..Len(enum) |-> [coeff |-> out.sentence[enum[i]], word |-> enum[i]]]

\* C11: hide_identity changes only which factors a term lists: the terms and
\* their coefficients are those of the call with the other value; with
\* hide_identity=False every term lists n factors, one per wire of wire_order
\* in its order; with hide_identity=True a term lists exactly its non-identity
\* factors, except the all-identity term, which lists the identity on all n wires.
C11_HideIdentity ==
    Returned =>
        LET hidden == WithHideIdentity(TRUE)
            shown == WithHideIdentity(FALSE)
            n == Qubits
            order == Order
        IN /\ hidden.kind = "return" /\ shown.kind = "return"
           /\ TermsOf(hidden) = TermsOf(shown)
           /\ dout.type = "Hamiltonian" =>
                /\ Len(hidden.ops) = Len(shown.ops)
                /\ hidden.coeffs = shown.coeffs
                /\ \A i \in 1..Len(shown.ops) :
                     /\ Len(shown.ops[i]) = n
                     /\ \A p \in 1..n : shown.ops[i][p].w = order[p]
                     /\ IF \A p \in 1..n : shown.ops[i][p].o = "I"
                        THEN hidden.ops[i] = shown.ops[i]
                        ELSE hidden.ops[i] = SelectSeq(shown.ops[i], LAMBDA f : f.o # "I")

\* two qubits, identities hidden: the all-identity term with both factors and
\* a term with one factor
C11_Witness ==
    /\ Returned
    /\ dargs.hide_identity
    /\ dout.type = "Hamiltonian"
    /\ Qubits = 2
    /\ \E i \in 1..Len(dout.ops) :
          Len(dout.ops[i]) = 2 /\ dout.ops[i][1].o = "I" /\ dout.ops[i][2].o = "I"
    /\ \E i \in 1..Len(dout.ops) : Len(dout.ops[i]) = 1

\* C12: pauli=True and pauli=False return the same decomposition: as many
\* entries in the PauliSentence as terms in the Hamiltonian, and for every term
\* of the Hamiltonian the entry of its word with the same coefficient.
C12_PauliFlag ==
    Returned =>
        LET ham == WithPauli(FALSE)
            ps == WithPauli(TRUE)
        IN /\ ham.kind = "return" /\ ps.kind = "return"
           /\ ham.type = "Hamiltonian" /\ ps.type = "PauliSentence"
           /\ Cardinality(DOMAIN ps.sentence) = Len(ham.coeffs)
           /\ \A i \in 1..Len(ham.coeffs) :
                LET word == FactorsWord(ham.ops[i])
                IN /\ word \in DOMAIN ps.sentence
                   /\ ps.sentence[word] = ham.coeffs[i]
                   /\ \A w \in DOMAIN word :
                        \E p \in 1..Len(ham.ops[i]) :
                           ham.ops[i][p].w = w /\ ham.ops[i][p].o = word[w]

\* a PauliSentence of several entries on two qubits, one of them the empty word
C12_Witness ==
    /\ Returned
    /\ dargs.pauli
    /\ Qubits = 2
    /\ Cardinality(DOMAIN dout.sentence) >= 4
    /\ EmptyDict \in DOMAIN dout.sentence

\* --------------------------------------------------- claims on pauli_sentence
SentenceDone == spc = "done"
Uncached == scache = 0
ReturnedSentence == sheap[sout.ref]
RaisedValueError == sout.kind = "raise" /\ sout.exc = "ValueError" /\ sout.msg = ErrMsg
IsSinglePauli(op) == op.type \in PauliTypes \cup {"Identity"}
OperandsOf(op) ==
    CASE op.type = "Tensor" -> op.obs
      [] op.type \in {"Prod", "Sum"} -> op.operands
      [] op.type = "Hamiltonian" -> op.ops
      [] op.type = "SProd" -> <<op.base>>
      [] OTHER -> <<>>

\* C13: a call on an operator whose _pauli_rep is not None returns that very
\* object: the dispatch is not called, no object is created, the cache is left
\* as it is, whatever the type of the operator.
C13_CachedObjectReturned ==
    [][(spc = "idle" /\ scache # 0 /\ spc' = "done") =>
          /\ sout' = [kind |-> "return", ref |-> scache]
          /\ ~dispatched'
          /\ sheap' = sheap
          /\ scache' = scache]_vars

\* an operator the dispatch rejects, returned from its cache
C13_Witness ==
    /\ SentenceDone
    /\ scache # 0
    /\ sop = RX0
    /\ _pauli_sentence(sop).kind = "raise"
    /\ sout = [kind |-> "return", ref |-> scache]

\* C14: the cache is filled lazily and written once: after a call on an
\* operator whose cache is None has computed the sentence, the cache holds the
\* object the call returned, and no later call on that operator goes through
\* the dispatch again.
C14_LazyWriteOnceCache ==
    /\ (SentenceDone /\ sout.kind = "return") => (scache # 0 /\ sout.ref = scache)
    /\ (SentenceDone /\ ncalls >= 2 /\ sheap # <<>>) => ~dispatched

\* what the code does with the cache: it reads it and never writes it: a call
\* on an operator whose cache is None goes through the dispatch, returns a new
\* object holding the computed sentence (or raises) and leaves the cache None,
\* so a later call computes again; a call on an operator whose cache is set
\* returns the stored object without recomputation.
C14_CacheReadNeverWritten ==
    [][/\ scache' = scache
       /\ (spc = "idle" /\ spc' = "done") =>
            IF scache = 0
            THEN /\ dispatched'
                 /\ sout'.kind = "raise" => sheap' = sheap
                 /\ sout'.kind = "return" =>
                      /\ sout'.ref = Len(sheap) + 1
                      /\ sheap' = Append(sheap, _pauli_sentence(sop).value)
            ELSE /\ ~dispatched'
                 /\ sout' = [kind |-> "return", ref |-> scache]
                 /\ sheap' = sheap]_vars

\* the second call on an uncached operator: a second object, equal to the first
C14_RecomputedWitness ==
    /\ SentenceDone
    /\ ncalls = 2
    /\ Uncached
    /\ dispatched
    /\ Len(sheap) = 2
    /\ sout = [kind |-> "return", ref |-> 2]
    /\ sheap[1] = sheap[2]

\* C15: on an uncached PauliX, PauliY or PauliZ the result has exactly one
\* term, the word mapping the first wire of the operator to X, Y or Z, with
\* coefficient 1; on an uncached Identity it has exactly one term, the empty
\* word with coefficient 1, whatever the wires of the Identity.
C15_AtomicSentences ==
    (SentenceDone /\ Uncached /\ IsSinglePauli(sop)) =>
        /\ sout.kind = "return"
        /\ Cardinality(DOMAIN ReturnedSentence) = 1
        /\ \A w \in DOMAIN ReturnedSentence :
             /\ ReturnedSentence[w] = COne
             /\ IF sop.type = "Identity"
                THEN DOMAIN w = {}
                ELSE DOMAIN w = {sop.wires[1]} /\ w[sop.wires[1]] = LetterOf(sop.type)

C15_Witness ==
    /\ SentenceDone
    /\ Uncached
    /\ sop = Atom("PauliZ", <<1>>)
    /\ sout.kind = "return"

C15_IdentityWitness ==
    /\ SentenceDone
    /\ Uncached
    /\ sop = Atom("Identity", <<1, 0>>)
    /\ sout.kind = "return"

\* the left-to-right product and the sum of the first k sentences of a sequence
RECURSIVE LeftProduct(_, _)
LeftProduct(sentences, k) ==
    IF k = 1 THEN sentences[1]
    ELSE SentenceMul(LeftProduct(sentences, k - 1), sentences[k])
RECURSIVE LeftSum(_, _)
LeftSum(sentences, k) ==
    IF k = 0 THEN EmptyDict
    ELSE SentenceAdd(LeftSum(sentences, k - 1), sentences[k])

\* the conversions of the operands of the operator
OperandResults == [k \in 1..Len(OperandsOf(sop)) |-> _pauli_sentence(OperandsOf(sop)[k])]
OperandSentences == [k \in 1..Len(OperandsOf(sop)) |-> OperandResults[k].value]

\* C16 as stated: a Tensor or a Prod is converted only if every factor is a
\* single-qubit Pauli or Identity; with any other factor, a Sum or a scalar
\* multiple included, the call raises the ValueError; otherwise the result is
\* the left-to-right product of the sentences of the factors.
C16_PauliFactorsOnly ==
    (SentenceDone /\ Uncached /\ sop.type \in {"Tensor", "Prod"}) =>
        IF \E k \in 1..Len(OperandsOf(sop)) : ~IsSinglePauli(OperandsOf(sop)[k])
        THEN RaisedValueError
        ELSE /\ sout.kind = "return"
             /\ ReturnedSentence = LeftProduct(OperandSentences, Len(OperandsOf(sop)))

\* C16 amended: a Tensor is converted only if every factor is a single-qubit
\* Pauli or Identity, else the call raises the ValueError; a Prod raises that
\* ValueError exactly when the conversion of one of its factors raises, so a
\* factor that is a Sum or a scalar multiple of Paulis is accepted; in both
\* cases the result is the left-to-right product of the sentences of the factors.
C16_TensorCheckedProdFolded ==
    (SentenceDone /\ Uncached /\ sop.type \in {"Tensor", "Prod"}) =>
        LET factors == OperandsOf(sop)
            fails == IF sop.type = "Tensor"
                     THEN \E k \in 1..Len(factors) : ~IsSinglePauli(factors[k])
                     ELSE \E k \in 1..Len(factors) : OperandResults[k].kind = "raise"
        IN IF fails
           THEN RaisedValueError /\ sheap = <<>>
           ELSE /\ sout.kind = "return"
                /\ ReturnedSentence = LeftProduct(OperandSentences, Len(factors))

\* a Prod with a Sum as a factor is converted: two terms
C16_Witness ==
    /\ SentenceDone
    /\ Uncached
    /\ sop = [type |-> "Prod", operands |-> <<[type |-> "Sum", operands |-> <<X0, Y0>>], Z1>>]
    /\ sout.kind = "return"
    /\ Cardinality(DOMAIN ReturnedSentence) = 2

\* Y on wire 0 times Z on wire 0: the word X with the phase i
C16_PhaseWitness ==
    /\ SentenceDone
    /\ Uncached
    /\ sop = [type |-> "Prod", operands |-> <<Y0, Z0>>]
    /\ sout.kind = "return"
    /\ ReturnedSentence = [w \in {[q \in {0} |-> "X"]} |-> CI]

\* C17: on a scalar product s * B the result has the words of the sentence of
\* B, every coefficient multiplied by s; nested scalar products multiply their
\* scalars; 2 * (X on wire 0 tensor Z on wire 1) gives the one term
\* {0: X, 1: Z} with coefficient 2; when B is not convertible the call raises.
C17_ScalarProduct ==
    (SentenceDone /\ Uncached /\ sop.type = "SProd") =>
        LET base == _pauli_sentence(sop.base)
        IN IF base.kind = "raise" THEN RaisedValueError
           ELSE /\ sout.kind = "return"
                /\ DOMAIN ReturnedSentence = DOMAIN base.value
                /\ \A w \in DOMAIN base.value :
                     ReturnedSentence[w] = CMul(sop.scalar, base.value[w])
                /\ (sop.base.type = "SProd" /\ IsSinglePauli(sop.base.base)) =>
                     \A w \in DOMAIN ReturnedSentence :
                        ReturnedSentence[w] = CMul(sop.scalar, sop.base.scalar)
                /\ (sop.scalar = <<2, 0>> /\ sop.base = [type |-> "Tensor", obs |-> <<X0, Z1>>]) =>
                     ReturnedSentence =
                        [w \in {[q \in {0, 1} |-> IF q = 0 THEN "X" ELSE "Z"]} |-> <<2, 0>>]

C17_Witness ==
    /\ SentenceDone
    /\ Uncached
    /\ sop = [type |-> "SProd", scalar |-> <<2, 0>>, base |-> [type |-> "Tensor", obs |-> <<X0, Z1>>]]
    /\ sout.kind = "return"

C17_NestedWitness ==
    /\ SentenceDone
    /\ Uncached
    /\ sop = [type |-> "SProd", scalar |-> CI,
               base |-> [type |-> "SProd", scalar |-> <<2, 0>>, base |-> X0]]
    /\ sout.kind = "return"
    /\ ReturnedSentence = [w \in {[q \in {0} |-> "X"]} |-> <<0, 2>>]

\* an operator that is a Pauli word up to a scalar: a single-qubit Pauli or
\* Identity, a Tensor or Prod of such operators, or a scalar multiple of one
RECURSIVE PauliWordConvertible(_)
PauliWordConvertible(op) ==
    CASE IsSinglePauli(op) -> TRUE
      [] op.type \in {"Tensor", "Prod", "SProd"} ->
           \A k \in 1..Len(OperandsOf(op)) : PauliWordConvertible(OperandsOf(op)[k])
      [] OTHER -> FALSE

\* the weight of the k-th term
Weight(op, k) == IF op.type = "Hamiltonian" THEN op.coeffs[k] ELSE COne
WeightedSum ==
    LeftSum([k \in 1..Len(OperandsOf(sop)) |-> Scaled(OperandSentences[k], Weight(sop, k))],
            Len(OperandsOf(sop)))

\* C18 as stated: a Sum or a Hamiltonian is converted only if every term is
\* convertible to a Pauli word, else the call raises the ValueError; otherwise
\* the result is the sum of the sentences of the terms, each weighted by its
\* coefficient, identical words merged and kept when they cancel.
C18_PauliWordTermsOnly ==
    (SentenceDone /\ Uncached /\ sop.type \in {"Sum", "Hamiltonian"}) =>
        IF \E k \in 1..Len(OperandsOf(sop)) : ~PauliWordConvertible(OperandsOf(sop)[k])
        THEN RaisedValueError
        ELSE sout.kind = "return" /\ ReturnedSentence = WeightedSum

\* C18 amended: a Hamiltonian is converted only if every term is a Pauli word,
\* else the call raises the ValueError; a Sum raises that ValueError exactly
\* when the conversion of one of its summands raises, so a summand that is
\* itself a Sum or a Hamiltonian is accepted; otherwise the result is the sum
\* of the sentences of the terms, coefficient k with term k (weight 1 in a
\* Sum), identical words merged into one entry that is kept when it cancels
\* to zero; a Hamiltonian without terms gives the empty sentence.
C18_WeightedSentenceSum ==
    (SentenceDone /\ Uncached /\ sop.type \in {"Sum", "Hamiltonian"}) =>
        LET terms == OperandsOf(sop)
            fails == IF sop.type = "Hamiltonian"
                     THEN \E k \in 1..Len(terms) : ~is_pauli_word(terms[k])
                     ELSE \E k \in 1..Len(terms) : OperandResults[k].kind = "raise"
        IN IF fails
           THEN RaisedValueError /\ sheap = <<>>
           ELSE /\ sout.kind = "return"
                /\ ReturnedSentence = WeightedSum
                /\ \A k \in 1..Len(terms) :
                     DOMAIN OperandSentences[k] \subseteq DOMAIN ReturnedSentence
                /\ terms = <<>> => ReturnedSentence = EmptyDict

\* a Hamiltonian of two different terms with different coefficients
C18_Witness ==
    /\ SentenceDone
    /\ Uncached
    /\ sop = [type |-> "Hamiltonian", coeffs |-> <<<<2, 0>>, <<-1, 0>>>>,
               ops |-> <<X0, [type |-> "Tensor", obs |-> <<X0, Z1>>]>>]
    /\ sout.kind = "return"
    /\ Cardinality(DOMAIN ReturnedSentence) = 2

\* X - X: the entry of the word X stays, with coefficient zero
C18_ZeroWitness ==
    /\ SentenceDone
    /\ Uncached
    /\ sop = [type |-> "Sum",
               operands |-> <<X0, [type |-> "SProd", scalar |-> <<-1, 0>>, base |-> X0]>>]
    /\ sout.kind = "return"
    /\ ReturnedSentence = [w \in {[q \in {0} |-> "X"]} |-> CZero]

\* a Sum with a Sum as a summand is converted
C18_NestedSumWitness ==
    /\ SentenceDone
    /\ Uncached
    /\ sop = [type |-> "Sum", operands |-> <<[type |-> "Sum", operands |-> <<X0, Y0>>], Z1>>]
    /\ sout.kind = "return"
    /\ Cardinality(DOMAIN ReturnedSentence) = 3

\* an operator outside the Pauli family at some depth of the operator
RECURSIVE ContainsNonPauli(_)
ContainsNonPauli(op) ==
    CASE IsSinglePauli(op) -> FALSE
      [] op.type \in {"Tensor", "Prod", "Sum", "Hamiltonian", "SProd"} ->
           \E k \in 1..Len(OperandsOf(op)) : ContainsNonPauli(OperandsOf(op)[k])
      [] OTHER -> TRUE

\* C19: an uncached operator that is or contains, at any depth, an operator
\* outside the Pauli family makes the call raise the ValueError; no sentence
\* is returned or created.
C19_NonPauliRejected ==
    (SentenceDone /\ Uncached /\ ContainsNonPauli(sop)) =>
        /\ RaisedValueError
        /\ sheap = <<>>

\* the rotation two levels down, in a Sum inside a Sum
C19_Witness ==
    /\ SentenceDone
    /\ Uncached
    /\ sop = [type |-> "Sum", operands |-> <<Z1, [type |-> "Sum", operands |-> <<X0, RX0>>]>>]
    /\ RaisedValueError
    /\ sout.got = RX0

\* ------------------------------------------- claims on the errors of measure
\* C20: whenever measure raises out of the dispatch, the exception is the
\* NotImplementedError for a measurement that is no StateMeasurement, and its
\* arguments name the class of that measurement.
C20_NotImplementedNamesClass ==
    pc = "raised" =>
        /\ outcome.exc = "NotImplementedError"
        /\ mp.cls \notin StateMeasurementClasses
        /\ \E k \in 1..Len(outcome.args) : outcome.args[k] = mp.cls

\* the NotImplementedError names the class of the measurement
C20_NamesClass ==
    (pc = "raised" /\ outcome.exc = "NotImplementedError") =>
        \E k \in 1..Len(outcome.args) : outcome.args[k] = mp.cls

\* NotImplementedError is the only exception of the dispatch
C20_OnlyError ==
    pc = "raised" => outcome.exc = "NotImplementedError"

\* ------------------------------- claims on the diagonalizing-gate strategy
\* sum over the basis states b of eigenvalue(b) times |amplitude b|^2
RECURSIVE WeightedProbability(_, _, _)
WeightedProbability(t, B, a) ==
    IF B = {} THEN 0
    ELSE LET b == CHOOSE x \in B : TRUE
         IN PauliEigvals[b[a] + 1] * AbsSq(t.data[b]) + WeightedProbability(t, B \ {b}, a)
RECURSIVE NormSq(_, _)
NormSq(t, B) ==
    IF B = {} THEN 0
    ELSE LET b == CHOOSE x \in B : TRUE IN AbsSq(t.data[b]) + NormSq(t, B \ {b})

\* sin(theta) = SinNum / SinDen
SinNum(th) == 2 * th.c * th.s
SinDen(th) == th.h * th.h

\* C21: the diagonalizing-gate strategy returns, for an expectation value, the
\* sum over the basis states b of eigenvalue(b) times the squared magnitude of
\* amplitude b of the state after the diagonalizing gates; for PauliY on wire 0
\* of the state RX(theta)|0> this is -sin(theta) (times the squared norm of
\* the stored amplitudes).
C21_ExpvalOfPauliY ==
    (pc = "done" /\ HasEigvals(mp)) =>
        LET final == ApplyAll(mp.gates, orig)
        IN /\ fn = "state_diagonalizing_gates"
           /\ outcome.kind = "return"
           /\ outcome.value = WeightedProbability(final, DOMAIN final.data, mp.wires[1] + 1)
           /\ \A th \in HalfAngles :
                (mp.obs = "PauliY" /\ mp.wires = <<0>> /\ orig = RXState(th, Rank(orig))) =>
                    outcome.value * SinDen(th) =
                        (0 - SinNum(th)) * NormSq(final, DOMAIN final.data)

\* theta = 2 atan(7/24) = 0.5676: the value is within the tolerance of the test,
\* 0.05 + 0.05 * 0.5141, of -sin(0.54) = -0.5141
C21_Witness ==
    /\ pc = "done"
    /\ HasEigvals(mp)
    /\ mp.obs = "PauliY"
    /\ orig = RXState([c |-> 24, s |-> 7, h |-> 25], Rank(orig))
    /\ outcome.kind = "return"
    /\ LET n == NormSq(heap[stateRef], DOMAIN heap[stateRef].data)
           d == 10000 * outcome.value + 5141 * n
       IN /\ n > 0
          /\ d <= 757 * n
          /\ 0 - d <= 757 * n

\* -------------------------------------------------- claims on Pauli words
\* the cyclic successor of a letter: X -> Y -> Z -> X
NextLetter(l) == CASE l = "X" -> "Y" [] l = "Y" -> "Z" [] l = "Z" -> "X"

\* the product of the phases that the wires of a and b contribute
RECURSIVE PhaseOver(_, _, _)
PhaseOver(a, b, Q) ==
    IF Q = {} THEN COne
    ELSE LET q == CHOOSE x \in Q : TRUE
             rest == PhaseOver(a, b, Q \ {q})
         IN IF q \notin DOMAIN a \/ q \notin DOMAIN b \/ a[q] = b[q] THEN rest
            ELSE IF b[q] = NextLetter(a[q]) THEN CMul(CI, rest)
            ELSE CMul(CNeg(CI), rest)

\* C22: the product of Pauli words is associative, phase included: (a*b)*c and
\* a*(b*c) are the same word with the same accumulated phase; per wire
\* X*Y = iZ, Y*Z = iX, Z*X = iY, the reversed products carry -i, a letter
\* times itself is the identity with phase 1, and a wire of one operand only
\* keeps its letter with phase 1.
C22_WordMulAssociative ==
    (hpc = "done" /\ hargs.fn = "mul") =>
        LET a == hargs.a
            b == hargs.b
            ab == hout.value.ab
        IN /\ hout.value.left = hout.value.right
           /\ \A q \in 0..MaxWires :
                CASE q \in DOMAIN a /\ q \in DOMAIN b ->
                       IF a[q] = b[q] THEN q \notin DOMAIN ab.word
                       ELSE /\ q \in DOMAIN ab.word
                            /\ ab.word[q] \notin {a[q], b[q]}
                  [] q \in DOMAIN a /\ q \notin DOMAIN b ->
                       q \in DOMAIN ab.word /\ ab.word[q] = a[q]
                  [] q \notin DOMAIN a /\ q \in DOMAIN b ->
                       q \in DOMAIN ab.word /\ ab.word[q] = b[q]
                  [] OTHER -> q \notin DOMAIN ab.word
           /\ DOMAIN ab.word \subseteq 0..MaxWires
           /\ ab.phase = PhaseOver(a, b, 0..MaxWires)

\* (X0 * X0 Y1) * Y0 Z1: phases from both wires and a cancelled letter
C22_Witness ==
    /\ hpc = "done"
    /\ hargs.fn = "mul"
    /\ hargs.a = [q \in {0} |-> "X"]
    /\ hargs.b = [q \in {0, 1} |-> IF q = 0 THEN "X" ELSE "Y"]
    /\ hargs.c = [q \in {0, 1} |-> IF q = 0 THEN "Y" ELSE "Z"]
    /\ hout.value.left = [word |-> [q \in {0, 1} |-> IF q = 0 THEN "Y" ELSE "X"], phase |-> CI]

\* --------------------------------------------- claims on transmon_interaction
TransmonDone == hpc = "done" /\ hargs.fn = "transmon_interaction"
IsSequence(x) == x.ndim = 1

\* C23: transmon_interaction checks its arguments in a fixed order: d # 2
\* raises NotImplementedError before anything else; with d = 2 a sequence
\* omega of another length than wires raises ValueError, then a sequence g of
\* another length than connections raises ValueError; a number for omega or g
\* raises neither; wires of the connections missing from wires cause a
\* warning only: the Hamiltonian is built and acts on those wires too.
C23_ValidationOrder ==
    TransmonDone =>
        LET omegaWrong == IsSequence(hargs.omega) /\ Len(hargs.omega.items) # Len(hargs.wires)
            gWrong == IsSequence(hargs.g) /\ Len(hargs.g.items) # Len(hargs.connections)
            extra == ConnectionWires(hargs.connections) \ WireSet(hargs.wires)
        IN CASE hargs.d # 2 ->
                  /\ hout.kind = "raise"
                  /\ hout.exc = "NotImplementedError"
                  /\ hout.warnings = <<>>
             [] hargs.d = 2 /\ omegaWrong ->
                  hout.kind = "raise" /\ hout.exc = "ValueError" /\ hout.msg = OmegaMsg
             [] hargs.d = 2 /\ ~omegaWrong /\ gWrong ->
                  hout.kind = "raise" /\ hout.exc = "ValueError" /\ hout.msg = CouplingMsg
             [] OTHER ->
                  /\ hout.kind = "return"
                  /\ (hout.warnings # <<>>) <=> (extra # {})
                  /\ HamiltonianWires(hout.value) =
                        WireSet(hargs.wires) \cup ConnectionWires(hargs.connections)

\* d = 3 with an omega and a g of wrong lengths: NotImplementedError
C23_Witness ==
    /\ TransmonDone
    /\ hargs.d = 3
    /\ IsSequence(hargs.omega) /\ Len(hargs.omega.items) # Len(hargs.wires)
    /\ IsSequence(hargs.g) /\ Len(hargs.g.items) # Len(hargs.connections)
    /\ hout.exc = "NotImplementedError"

\* a warning and a Hamiltonian that acts on a wire that is not in wires
C23_WarningWitness ==
    /\ TransmonDone
    /\ hout.kind = "return"
    /\ hout.warnings = <<MismatchWarning>>
    /\ hargs.wires = <<0>>
    /\ 2 \in HamiltonianWires(hout.value)

\* omega and g both of a wrong length: the error of omega
C23_OmegaFirstWitness ==
    /\ TransmonDone
    /\ hargs.d = 2
    /\ IsSequence(hargs.omega) /\ Len(hargs.omega.items) # Len(hargs.wires)
    /\ IsSequence(hargs.g) /\ Len(hargs.g.items) # Len(hargs.connections)
    /\ hout.msg = OmegaMsg

DriveDone == hpc = "done" /\ hargs.fn = "transmon_drive"

\* the parameter of the n-th of amplitude, phase, frequency (n = 1, 2, 3): the
\* callables take the parameters in that order
OwnParam(flags, params, n) ==
    params.items[Cardinality({k \in 1..n : flags[k]})]
\* the constant given or the callable applied to its own parameter and t
ValueOf(x, flags, params, n, t) ==
    IF x.callable THEN Call(x.v, OwnParam(flags, params, n), t) ELSE x.v
Expected(trig_fn, args) ==
    LET flags == <<args.amplitude.callable, args.phase.callable, args.freq.callable>>
    IN TimesTrig(ValueOf(args.amplitude, flags, args.params, 1, args.t), trig_fn,
                 ValueOf(args.phase, flags, args.params, 2, args.t)
                   + ValueOf(args.freq, flags, args.params, 3, args.t) * args.t)

\* exactly one of the eight conditions holds and its function is self.func
OneFunctionSelected(o) ==
    LET conds == Conditions(o.amp_is_callable, o.phase_is_callable, o.freq_is_callable)
    IN /\ CountTrue(conds) = 1
       /\ \E k \in 1..Len(conds) : conds[k] /\ o.func = FuncNames[k]

\* C25: for each of the eight combinations of constant or callable amplitude,
\* phase and frequency exactly one evaluation function is selected, and the
\* coefficient is A * trig(P + F * t) at (params, t), A, P and F being the
\* constant given or the callable applied to its own parameter and t; the
\* drive pairs the cos coefficient with 0.5 X and the sin coefficient with
\* -0.5 Y on each wire.
C25_CoefficientValue ==
    DriveDone =>
        /\ \A k \in 1..2 : OneFunctionSelected(hout.H.coeffs[k])
        /\ hout.value[1] = Expected("cos", hargs)
        /\ hout.value[2] = Expected("sin", hargs)
        /\ hout.H.observables = <<DriveTerm(1, "X", hargs.wires), DriveTerm(-1, "Y", hargs.wires)>>

\* the same for the combinations in which not all three are callable
C25_CoefficientValueUnlessAllCallable ==
    (DriveDone /\ ~(hargs.amplitude.callable /\ hargs.phase.callable /\ hargs.freq.callable)) =>
        /\ \A k \in 1..2 : OneFunctionSelected(hout.H.coeffs[k])
        /\ hout.value[1] = Expected("cos", hargs)
        /\ hout.value[2] = Expected("sin", hargs)
        /\ hout.H.observables = <<DriveTerm(1, "X", hargs.wires), DriveTerm(-1, "Y", hargs.wires)>>

\* amplitude and frequency callable: the second parameter goes to the frequency
C25_TwoCallablesWitness ==
    /\ DriveDone
    /\ hargs.amplitude = Fun(1) /\ hargs.phase = Const(3) /\ hargs.freq = Fun(2)
    /\ hargs.params = List(<<1, 2>>) /\ hargs.t = 2
    /\ hout.value[1] = TimesTrig(3, "cos", 13)

\* all three constant: amp * trig(phase + freq * t)
C25_ConstantWitness ==
    /\ DriveDone
    /\ hargs.amplitude = Const(2) /\ hargs.phase = Const(3) /\ hargs.freq = Const(2)
    /\ hargs.t = 2
    /\ hout.value = <<TimesTrig(2, "cos", 7), TimesTrig(2, "sin", 7)>>

\* -------------------------------------------------------- claims on Attribute
\* a string, an Operator instance or an Operator subclass
Named(obj) == obj.kind = "str" \/ (obj.kind \in {"instance", "class"} /\ obj.operator)
IsTensorInstance(obj) == obj.kind = "instance" /\ obj.tensor
AllStrings(S) == \A x \in S : x.type = "str"

\* what a membership test does by the claim
ContainsAsClaimed(obj) ==
    /\ members' = members
    /\ IF Named(obj)
       THEN hout' = Result(IF IsTensorInstance(obj) THEN FALSE ELSE obj.name \in members)
       ELSE hout'.kind = "raise" /\ hout'.exc = "TypeError"

C26_TensorAddWitness ==
    /\ hargs = [fn |-> "add", obj |-> Object("instance", TRUE, TRUE, NameList("PauliX, PauliZ"))]
    /\ hout = TypeError(AddMsg)

\* ------------------------------------------ claims on the steps of pauli_decompose
RECURSIVE BitAnd(_, _)
BitAnd(x, y) ==
    IF x = 0 \/ y = 0 THEN 0
    ELSE ((x % 2) * (y % 2)) + 2 * BitAnd(x \div 2, y \div 2)
RECURSIVE PopCount(_)
PopCount(x) == IF x = 0 THEN 0 ELSE (x % 2) + PopCount(x \div 2)
\* i^k and (-1)^k
IPow(k) == <<COne, CI, CNeg(COne), CNeg(CI)>>[(k % 4) + 1]
Sign(k) == IF k % 2 = 0 THEN COne ELSE CNeg(COne)

\* the mask of the positions of a label that hold a letter of S, position 1
\* the most significant bit
Mask(pauli_rep, n, S) ==
    SumTo([p \in 1..n |-> IF pauli_rep[p] \in S THEN Pow2(n - p) ELSE 0], n)

\* i^popcount(z AND x) / 2^n times the sum over the rows r of
\* (-1)^popcount(z AND r) * M[r, r XOR x]
MaskFormula(D, pauli_rep, n) ==
    LET z == Mask(pauli_rep, n, {"Y", "Z"})
        x == Mask(pauli_rep, n, {"X", "Y"})
        N == Pow2(n)
        sum == CSumTo([k \in 1..N |->
                         CMul(Sign(PopCount(BitAnd(z, k - 1))),
                              D.data[<<k - 1, BitXor(k - 1, x)>>])], N)
    IN CDivide(CMul(IPow(PopCount(BitAnd(z, x))), sum), N)

\* the transformed matrix of the call
TermMat == HadamardTransform(Permuted(Decomposable), Qubits, Qubits)

\* the four coefficients of a 2 x 2 matrix
OneQubitCoefficients(D) ==
    LET m00 == D.data[<<0, 0>>]
        m01 == D.data[<<0, 1>>]
        m10 == D.data[<<1, 0>>]
        m11 == D.data[<<1, 1>>]
    IN [I |-> CDivide(CAdd(m00, m11), 2), Z |-> CDivide(CSub(m00, m11), 2),
        X |-> CDivide(CAdd(m01, m10), 2), Y |-> CDivide(CMul(CI, CSub(m01, m10)), 2)]

C27_OneQubitWitness ==
    /\ Returned
    /\ Qubits = 1
    /\ Decomposable.data[<<0, 1>>] = COne
    /\ Decomposable.data[<<1, 0>>] = CI
    /\ Coefficient(TermMat, <<"Y">>, 1) = [re |-> 1, im |-> 1, den |-> 2]

\* C28: the XOR permutation step produces T with T[r][c] = M[r][r XOR c]: the
\* k-th index row, built from the identity row by XOR-ing the previous row
\* with k XOR (k - 1), is j -> j XOR k, so every row of T is a permutation of
\* the same row of M and every index is in 0..2^n - 1; the array handed over
\* as matrix is not modified.
C28_XorPermutation ==
    /\ Decomposed => dmatrix = Array(dargs.matrix)
    /\ Returned =>
         LET M == Decomposable
             N == Side
             indices == Indices(N, N - 1)
             T == Stacked(M).data
         IN /\ Len(indices) = N
            /\ \A k \in 0..(N - 1) :
                  /\ \A j \in 0..(N - 1) :
                        /\ indices[k + 1][j] = BitXor(j, k)
                        /\ indices[k + 1][j] \in 0..(N - 1)
                  /\ {indices[k + 1][j] : j \in 0..(N - 1)} = 0..(N - 1)
            /\ \A r \in 0..(N - 1), c \in 0..(N - 1) :
                  T[<<r, c>>] = M.data[<<r, BitXor(r, c)>>]

\* a 2 x 2 matrix given without padding: the entry of row 1, column 0 is
\* moved to column 1, and the array handed over still holds the matrix
C28_Witness ==
    /\ Returned
    /\ ~dargs.padding
    /\ Side = 2
    /\ dargs.matrix.data[<<1, 0>>] = CI
    /\ dargs.matrix.data[<<1, 1>>] = CZero
    /\ Stacked(dargs.matrix).data[<<1, 1>>] = CI
    /\ dmatrix = Array(dargs.matrix)

\* a 3 x 3 matrix padded to 4 x 4: the entry of row 2, column 1 is moved to
\* column 3
C28_TwoQubitWitness ==
    /\ Returned
    /\ dargs.padding
    /\ dargs.matrix.shape = <<3, 3>>
    /\ dargs.matrix.data[<<2, 1>>] = CI
    /\ Stacked(Decomposable).data[<<2, 3>>] = CI

\* ------------------------------------------ claims on the frame of pauli_sentence
\* C29: pauli_sentence is deterministic and alters nothing: a second call on
\* the same operator returns a sentence equal to that of the first (or raises
\* as the first did); a call leaves the operator and its _pauli_rep as they
\* are, and leaves the contents of every sentence object that existed before
\* the call, the cached one of the operator and that of a nested operand
\* included, as they were: the in-place scaling for SProd and Hamiltonian
\* writes into objects made during the call.
C29_DeterministicNoSideEffects ==
    [][/\ sop' = sop
       /\ scache' = scache
       /\ sopreps' = sopreps
       /\ Len(sheap') >= Len(sheap)
       /\ \A i \in 1..Len(sheap) : sheap'[i] = sheap[i]
       /\ (spc' = "done" /\ ncalls' = 2) =>
            IF scache # 0
            THEN sout' = [kind |-> "return", ref |-> scache]
            ELSE IF sout'.kind = "return"
                 THEN Len(sheap') = 2 /\ sheap'[2] = sheap'[1]
                 ELSE sheap' = <<>>]_vars

\* an SProd with scalar i whose base has a cached sentence, converted twice:
\* the two returned sentences are equal and the base's cached object is as before
C29_Witness ==
    /\ SentenceDone
    /\ ncalls = 2
    /\ scache = 0
    /\ sop.type = "SProd"
    /\ sop.scalar = CI
    /\ sopreps = <<[w \in {[q \in {0} |-> "X"]} |-> COne]>>
    /\ sout.kind = "return"
    /\ sheap[1] = sheap[2]
    /\ sheap[2] # sopreps[1]

\* a Hamiltonian whose first term has a cached sentence
C29_HamiltonianWitness ==
    /\ SentenceDone
    /\ ncalls = 2
    /\ scache = 0
    /\ sop.type = "Hamiltonian"
    /\ Len(sop.ops) = 2
    /\ sop.coeffs[1] = <<2, 0>>
    /\ sopreps = <<[w \in {[q \in {0} |-> "X"]} |-> COne]>>
    /\ sout.kind = "return"

\* ------------------------------------------- claims on _reorder_AmpPhaseFreq
ReorderDone == hpc = "done" /\ hargs.fn = "_reorder_AmpPhaseFreq"
IsDriveCoefficient(coeff) == coeff.class = "AmplitudeAndPhaseAndFreq"
Callables(coeff) ==
    CountTrue(<<coeff.amp_is_callable, coeff.phase_is_callable, coeff.freq_is_callable>>)

\* the number of parameters the coefficients before position i take
ParamsBefore(coeffs, i) == ParamsNeeded(SubSeq(coeffs, 1, i - 1))
\* position i is the second member of its pair: an odd number of drive
\* coefficients directly before it
RECURSIVE DriveRun(_, _)
DriveRun(coeffs, i) ==
    IF i = 0 \/ ~IsDriveCoefficient(coeffs[i]) THEN 0 ELSE 1 + DriveRun(coeffs, i - 1)
IsSecondOfPair(coeffs, i) == IsDriveCoefficient(coeffs[i]) /\ DriveRun(coeffs, i) % 2 = 0

\* the entry the claim gives coefficient i
ClaimedEntry(params, coeffs, i) ==
    LET first == IF IsSecondOfPair(coeffs, i) THEN i - 1 ELSE i
        at == ParamsBefore(coeffs, first)
        k == IF IsDriveCoefficient(coeffs[i]) THEN Callables(coeffs[i]) ELSE 1
    IN IF ~IsDriveCoefficient(coeffs[i]) THEN Scalar(params[at + 1])
       ELSE IF k = 0 THEN None
       ELSE IF k = 1 THEN Scalar(params[at + 1])
       ELSE List([j \in 1..k |-> params[at + j]])

\* the parameters of the entries, pairs counted once, in coefficient order
RECURSIVE Consumed(_, _, _)
Consumed(reordered, coeffs, n) ==
    IF n = 0 THEN <<>>
    ELSE Consumed(reordered, coeffs, n - 1)
           \o (IF IsSecondOfPair(coeffs, n) THEN <<>> ELSE reordered[n].items)

\* C30: with every drive coefficient in an adjacent pair and exactly the
\* parameters needed, _reorder_AmpPhaseFreq returns one entry per coefficient
\* in coefficient order: both members of a pair get the same entry (the list
\* of k parameters for k = 2 or 3, the parameter for k = 1, None for k = 0),
\* every other coefficient gets the next parameter, and the parameters are
\* consumed left to right, each once, with no index past the end.
C30_OneEntryPerCoefficient ==
    (ReorderDone /\ Len(hargs.params) = ParamsNeeded(hargs.coeffs_parametrized)) =>
      LET params == hargs.params
          coeffs == hargs.coeffs_parametrized
      IN /\ hout.kind = "return"
         /\ Len(hout.value) = Len(coeffs)
         /\ \A i \in 1..Len(coeffs) : hout.value[i] = ClaimedEntry(params, coeffs, i)
         /\ \A i \in 1..Len(coeffs) :
               IsSecondOfPair(coeffs, i) => hout.value[i] = hout.value[i - 1]
         /\ Consumed(hout.value, coeffs, Len(coeffs)) = params
         /\ hout.params_idx = Len(params)

\* a drive term with one callable, then another coefficient: the pair shares
\* the first parameter and the other coefficient gets the second
C30_Witness ==
    /\ ReorderDone
    /\ Len(hargs.coeffs_parametrized) = 3
    /\ hargs.params = <<10, 20>>
    /\ hout.kind = "return"
    /\ hout.value = <<Scalar(10), Scalar(10), Scalar(20)>>

\* two drive terms with three and with no callables
C30_ListAndNoneWitness ==
    /\ ReorderDone
    /\ hargs.params = <<10, 20, 30>>
    /\ hout.kind = "return"
    /\ hout.value = <<List(<<10, 20, 30>>), List(<<10, 20, 30>>), None, None>>

\* one parameter too few
C30_IndexErrorWitness ==
    /\ ReorderDone
    /\ Len(hargs.params) < ParamsNeeded(hargs.coeffs_parametrized)
    /\ hout.kind = "raise"

====
